---- MODULE Spec2Model ----
(***************************************************************************)
(* Model of the ink-on decoding worker (src/src/core/inference.worker.ts)  *)
(* and of the engine that talks to it (src/src/core/inference.ts).         *)
(*                                                                         *)
(* Numbers.  Logits are small integers read as multiples of ln 2, so that  *)
(* exp(x) is the power of two 2^x.  Log-probabilities are kept in fixed    *)
(* point, in thousandths of a bit; log2 is read from a table rounded to    *)
(* that unit.  A log-probability is a record [fin, v]: fin = FALSE is      *)
(* -Infinity.  Length-normalised scores are compared exactly (by cross     *)
(* multiplication), where the code compares two rounded float quotients.   *)
(***************************************************************************)
EXTENDS Integers, Sequences, FiniteSets, TLC

\* ------------------------------------------------------------ bounds
\* vocab_size of the request: token ids are 0 .. VocabSize-1
VocabSize == 4
\* largest logit the executor returns
MaxLogit == 2
\* largest maxSteps of a request
MaxSteps == 4
\* largest beamWidth of a request
MaxBeamWidth == 3
\* largest beamWidth * maxSteps of a request
MaxWork == 8

\* ------------------------------------------------- program constants
REPEAT_LIMIT == 3

NUMBER_MODE_ALLOWED ==
  {0, 1, 2, 4, 5, 6, 8, 9, 10, 11, 12, 13, 14, 15, 16, 17, 18, 19, 20, 22, 50,
   53, 69, 78, 82, 83, 110, 112}

\* vocab.special_tokens of the vocabulary the tests use
SOS == 1
EOS == 2

Tokens == 0 .. (VocabSize - 1)
Modes == {"auto", "number"}

\* ------------------------------------------------------- arithmetic
NegInf == [fin |-> FALSE, v |-> 0]
Fin(x) == [fin |-> TRUE, v |-> x]

\* a + b on log-probabilities: -Infinity absorbs
Add(a, b) == IF a.fin /\ b.fin THEN Fin(a.v + b.v) ELSE NegInf

\* a > b on log-probabilities (the loops' "v > max")
GtVal(a, b) == IF ~a.fin THEN FALSE ELSE IF ~b.fin THEN TRUE ELSE a.v > b.v

Pow2(n) == LET p[k \in 0 .. n] == IF k = 0 THEN 1 ELSE 2 * p[k - 1] IN p[n]

\* round(1000 * log2(n)), n = 1 .. 64
Log2Milli ==
  << 0, 1000, 1585, 2000, 2322, 2585, 2807, 3000,
     3170, 3322, 3459, 3585, 3700, 3807, 3907, 4000,
     4087, 4170, 4248, 4322, 4392, 4459, 4524, 4585,
     4644, 4700, 4755, 4807, 4858, 4907, 4954, 5000,
     5044, 5087, 5129, 5170, 5209, 5248, 5285, 5322,
     5358, 5392, 5426, 5459, 5492, 5524, 5555, 5585,
     5615, 5644, 5672, 5700, 5728, 5755, 5781, 5807,
     5833, 5858, 5883, 5907, 5931, 5954, 5977, 6000 >>

\* One step of a stable sort: x goes before the first element of s that it
\* outranks (later: the positions of s that x outranks), behind all others.
\* Inserting the elements one by one gives the order of Array.prototype.sort
\* with a comparator cmp(a, b) < 0 iff a outranks b (a NaN difference,
\* -Infinity against -Infinity, counts as 0).
InsertBefore(s, x, later) ==
  LET p == IF later = {} THEN Len(s) + 1
           ELSE CHOOSE i \in later : \A j \in later : i <= j
  IN SubSeq(s, 1, p - 1) \o <<x>> \o SubSeq(s, p, Len(s))

Take(seq, k) == SubSeq(seq, 1, IF k < Len(seq) THEN k ELSE Len(seq))

\* ---------------------------------------------------------- executor
\* The logits of the last position: token t raised by h over the others.
Row(t, h) == [i \in Tokens |-> IF i = t THEN h ELSE 0]

\* What decodeStep may return: uniform logits, token 0 far ahead, eos
\* slightly ahead, eos far ahead, and the first token outside the whitelist
\* far ahead.
LogitRows ==
  {Row(0, 0), Row(0, MaxLogit), Row(EOS, 1), Row(EOS, MaxLogit),
   Row(3, MaxLogit)}

\* --------------------------------------------------- decoding helpers
logSoftmax(logits) ==
  LET max == CHOOSE m \in {logits[i] : i \in Tokens} :
               \A i \in Tokens : logits[i] <= m
      \* exp(logits[i] - max), scaled by 2^MaxLogit
      expS(i) == Pow2(MaxLogit + logits[i] - max)
      sum[n \in 0 .. VocabSize] ==
        IF n = 0 THEN 0 ELSE sum[n - 1] + expS(n - 1)
      logSumExp == Log2Milli[sum[VocabSize]] - 1000 * MaxLogit
  IN [i \in Tokens |-> Fin(1000 * (logits[i] - max) - logSumExp)]

\* allowed is <<>> for null, <<set>> for a whitelist
allowedTokens(mode) == IF mode = "number" THEN <<NUMBER_MODE_ALLOWED>> ELSE <<>>

\* mutant: without a whitelist nothing is allowed
applyModeMaskNullIsEmpty(logProbs, allowed) ==
  IF allowed = <<>> THEN [i \in Tokens |-> NegInf]
  ELSE [i \in Tokens |-> IF i \in allowed[1] THEN logProbs[i] ELSE NegInf]

applyModeMask(logProbs, allowed) ==
  IF allowed = <<>> THEN logProbs
  ELSE [i \in Tokens |-> IF i \in allowed[1] THEN logProbs[i] ELSE NegInf]

topK(arr, k) ==
  LET sorted[n \in 0 .. VocabSize] ==
        IF n = 0 THEN <<>>
        ELSE LET s == sorted[n - 1]
                 later == {i \in 1 .. Len(s) : GtVal(arr[n - 1], arr[s[i]])}
             IN InsertBefore(s, n - 1, later)
  IN Take(sorted[VocabSize], k)

\* mutant: ">=" for ">": the last index of the largest value
ArgMaxLast(logProbs) ==
  LET f[n \in 0 .. VocabSize] ==
        IF n = 0 THEN [maxVal |-> NegInf, maxIdx |-> 0]
        ELSE IF ~GtVal(f[n - 1].maxVal, logProbs[n - 1])
             THEN [maxVal |-> logProbs[n - 1], maxIdx |-> n - 1]
             ELSE f[n - 1]
  IN f[VocabSize].maxIdx

\* the greedy branch's argmax loop: the first index of the largest value,
\* index 0 when nothing exceeds -Infinity
ArgMax(logProbs) ==
  LET f[n \in 0 .. VocabSize] ==
        IF n = 0 THEN [maxVal |-> NegInf, maxIdx |-> 0]
        ELSE IF GtVal(logProbs[n - 1], f[n - 1].maxVal)
             THEN [maxVal |-> logProbs[n - 1], maxIdx |-> n - 1]
             ELSE f[n - 1]
  IN f[VocabSize].maxIdx

\* mutant: candidates are ranked by logProb, not divided by the length
ScoreGtRaw(b, a) == GtVal(b.logProb, a.logProb)

\* b.logProb / max(b.ids.length, 1) > a.logProb / max(a.ids.length, 1)
NormLen(b) == IF Len(b.ids) > 1 THEN Len(b.ids) ELSE 1

ScoreGt(b, a) ==
  IF ~b.logProb.fin THEN FALSE
  ELSE IF ~a.logProb.fin THEN TRUE
  ELSE b.logProb.v * NormLen(a) > a.logProb.v * NormLen(b)

\* list.sort((a, b) => score(b) - score(a))
SortByScore(list) ==
  LET sorted[n \in 0 .. Len(list)] ==
        IF n = 0 THEN <<>>
        ELSE LET s == sorted[n - 1]
                 later == {i \in 1 .. Len(s) : ScoreGt(list[n], s[i])}
             IN InsertBefore(s, list[n], later)
  IN sorted[Len(list)]

\* mutant: the run is counted over the last two tokens only
rCountShort(ids, idx) ==
  Cardinality({k \in 1 .. 2 :
                 /\ k <= Len(ids) - 1
                 /\ \A j \in (Len(ids) - k + 1) .. Len(ids) : ids[j] = idx})

\* trailing run of idx in ids, position 0 (the sos) left out
rCount(ids, idx) ==
  Cardinality({k \in 1 .. (Len(ids) - 1) :
                 \A j \in (Len(ids) - k + 1) .. Len(ids) : ids[j] = idx})

\* ------------------------------------------------------------- state
VARIABLES
  nextId,     \* InferenceEngine.nextId
  pending,    \* InferenceEngine.pending: the ids with a registered promise
  settled,    \* per id: how recognize()'s promise ended
  delivered,  \* per id: the candidates its promise resolved with
  toWorker,   \* messages posted to the worker, not yet handled
  toEngine,   \* messages posted by the worker, not yet handled
  w,          \* per id: the locals of its handleRecognize call
  encSeq,     \* executor: number of encoder results handed out so far
  hist,       \* per id: what the executor and the channel saw (history)
  pair,       \* the greedy loop and the beam loop with width 1, side by side
  tk,         \* a call of one of the tokenizer's functions: input and result
  sel,        \* the selection among the candidates of one result
  eng,        \* InferenceEngine: worker, initPromise and the calls in progress
  oracle,     \* a deterministic executor: the logits it has for every input
  ld,         \* one initialization: model fetches and session creation
  voc,        \* tokenizer module: cachedVocab and the loadVocab calls
  mc,         \* one fetch of a model through the cache
  pp,         \* one call of the preprocessing: strokes in, result out
  am,         \* one call of applyModeMask: the vector before and after
  ui          \* the demo app and its MathCanvas

vars ==
  <<nextId, pending, settled, delivered, toWorker, toEngine, w, encSeq, hist,
    pair, tk, sel, eng, oracle, ld, voc, mc, pp, am, ui>>

\* the variables of the engine and the worker
workerVars ==
  <<nextId, pending, settled, delivered, toWorker, toEngine, w, encSeq, hist>>

\* the variables the engine and the worker leave alone
otherVars == <<pair, tk, sel, eng, oracle, ld, voc, mc, pp, am, ui>>

\* the variables of the engine, the worker, the tokenizer and the selection
coreVars == <<workerVars, pair, tk, sel, eng, oracle>>

\* the variables the two loops run side by side leave alone
restVars == <<tk, sel, eng, oracle, ld, voc, mc, pp, am, ui>>

\* all ids a caller may ever use in the model
AllIds == {0, 1}

\* the locals of a handleRecognize call that has not started
IdleCall ==
  [pc |-> "idle", beamWidth |-> 0, maxSteps |-> 0, mode |-> "auto",
   encFeatures |-> 0,
   ids |-> <<>>, repeatCount |-> 0, lastToken |-> -1, step |-> 0,
   beams |-> <<>>, allCandidates |-> <<>>, bi |-> 0,
   rounds |-> 0, pool |-> <<>>,
   candidates |-> <<>>]

NoHist ==
  [encodeCalls |-> 0, encReturned |-> {}, decodeCalls |-> 0, decodeArgs |-> {},
   failed |-> FALSE, posts |-> <<>>]

\* no tokenizer call
NoCall ==
  [pc |-> "none", tokens |-> <<>>, ids |-> <<>>, out |-> <<>>, ok |-> FALSE]

\* nothing selected
NoSelection ==
  [pc |-> "none", candidates |-> <<>>, mode |-> "auto", valid |-> {},
   latex |-> <<>>]

\* the callers of one engine, and the most workers it creates
MaxCallers == 2
MaxWorkers == 2

Callers == 1 .. MaxCallers

\* the callers of loadVocab
MaxVocabCallers == 3

VocabCallers == 1 .. MaxVocabCallers

\* a caller that has called nothing
NoCaller == [op |-> "none", pc |-> "idle", on |-> 0, to |-> 0, ready |-> FALSE]

\* the engine after construction, nothing called: worker and initPromise null
\* (0), no worker created
NewEngine ==
  [worker |-> 0, initPromise |-> 0, workers |-> <<>>, promise |-> <<>>,
   call |-> [c \in Callers |-> NoCaller],
   clean |-> FALSE, disposed |-> FALSE]

\* no session creation going on
NoLoad ==
  [pc |-> "none", handler |-> "worker", ep |-> "wasm",
   fetch |-> [enc |-> "none", dec |-> "none"],
   providers |-> <<>>, tries |-> <<>>, sessions |-> FALSE, msg |-> "none"]

\* the module of the tokenizer as loaded: no vocabulary cached
NoVocab ==
  [cachedVocab |-> 0, fetches |-> 0, objects |-> 0,
   call |-> [c \in VocabCallers |-> [pc |-> "idle", ret |-> 0]]]

\* no model fetched
NoFetch ==
  [pc |-> "none", fn |-> "fetchModel", store |-> 0, buf |-> 0,
   settled |-> "none", result |-> 0, netFailed |-> FALSE,
   cacheFailed |-> FALSE, calls |-> 0]

\* no strokes given to the preprocessing
NoInput ==
  [pc |-> "none", fn |-> "none", bitmap |-> [width |-> 0, height |-> 0],
   points |-> <<>>, interval |-> 0, strokes |-> <<>>, given |-> <<>>,
   out |-> <<>>]

\* the variables of the loaders and of the preprocessing at rest
\* applyModeMask not called
NoMasking ==
  [pc |-> "none", logProbs |-> [i \in Tokens |-> NegInf], allowed |-> <<>>,
   before |-> [i \in Tokens |-> NegInf]]

\* the demo app before it is mounted, with an empty canvas: engine is
\* whether engine and vocab are set; a timer is on after setTimeout until it
\* fires or is cleared, and left is the time until it fires; calls is the
\* number of recognize calls that have not settled; result is null or a
\* RecognitionResult with latex in it; last is the handler or method of the
\* canvas that ran last
NoApp ==
  [strokes |-> <<>>, isDrawing |-> FALSE, currentPoints |-> <<>>,
   emits |-> 0, payload |-> <<>>,
   engine |-> FALSE, result |-> "null",
   idleTimer |-> [on |-> FALSE, strokes |-> <<>>, left |-> 0],
   calls |-> 0, sinceChange |-> 0, startedAfter |-> 0, quiet |-> FALSE,
   last |-> "none"]

More ==
  /\ ld = NoLoad
  /\ voc = NoVocab
  /\ mc = NoFetch
  /\ pp = NoInput
  /\ am = NoMasking
  /\ ui = NoApp

\* no executor fixed in advance
NoOracle == <<>>

\* the parts of the state a specification does not use
Rest ==
  /\ tk = NoCall
  /\ sel = NoSelection
  /\ eng = NewEngine
  /\ oracle = NoOracle
  /\ More

Init ==
  /\ nextId = 0
  /\ pending = {}
  /\ settled = [i \in AllIds |-> "none"]
  /\ delivered = [i \in AllIds |-> <<>>]
  /\ toWorker = <<>>
  /\ toEngine = <<>>
  /\ w = [i \in AllIds |-> IdleCall]
  /\ encSeq = 0
  /\ hist = [i \in AllIds |-> NoHist]
  /\ pair = [on |-> FALSE, g |-> IdleCall, b |-> IdleCall]
  /\ Rest

\* ----------------------------------------------- handleRecognize, pure
\* mutant: the greedy loop runs one step too many
GreedyLoopGuardOffByOne(step, maxSteps) == step <= maxSteps

\* for (let step = 0; step < maxSteps; step++), greedy branch
GreedyLoopGuard(step, maxSteps) == step < maxSteps

\* mutant: the beam loop runs one round too many
BeamLoopGuardOffByOne(step, maxSteps) == step <= maxSteps

\* for (let step = 0; step < maxSteps; step++), beam branch
BeamLoopGuard(step, maxSteps) == step < maxSteps

\* mutant: after the first step the features are read from a slot shared
\* by all requests, which holds the latest encoder result
DecoderFeaturesShared(r) == IF r.step = 0 THEN r.encFeatures ELSE encSeq

\* the features runDecoder is called with
DecoderFeatures(r) == r.encFeatures

\* candidates = [{ ids: ids.slice(1), logProb: 0 }]
GreedyFinish(r) ==
  [r EXCEPT !.pc = "done",
            !.candidates = <<[ids |-> Tail(r.ids), logProb |-> Fin(0)]>>]

\* top of the greedy loop: call runDecoder or leave the loop
GreedyLoop(r) ==
  IF GreedyLoopGuard(r.step, r.maxSteps) THEN [r EXCEPT !.pc = "greedy"]
  ELSE GreedyFinish(r)

\* the body of the greedy loop after runDecoder returned logits
GreedyBody(r, logits) ==
  LET logProbs == applyModeMask(logSoftmax(logits), allowedTokens(r.mode))
      maxIdx == ArgMax(logProbs)
  IN IF maxIdx = EOS THEN GreedyFinish(r)
     ELSE IF maxIdx = r.lastToken /\ r.repeatCount + 1 >= REPEAT_LIMIT
       THEN GreedyFinish([r EXCEPT !.repeatCount = @ + 1])
     ELSE GreedyLoop([r EXCEPT
            !.repeatCount = IF maxIdx = r.lastToken THEN @ + 1 ELSE 0,
            !.lastToken = maxIdx,
            !.ids = Append(@, maxIdx),
            !.step = @ + 1])

\* mutant: a carried beam is opened again
CarryOverReopened(beam) == [beam EXCEPT !.finished = FALSE]

\* a finished beam of the beam set is pushed to allCandidates as it is
CarryOver(beam) == beam

\* mutant: the eos that finishes a beam is appended to its ids
ExtendWithEos(beam, logProbs, idx) ==
  LET newLogProb == Add(beam.logProb, logProbs[idx])
  IN IF idx = EOS
       THEN [logProb |-> newLogProb, ids |-> Append(beam.ids, idx),
             finished |-> TRUE]
     ELSE IF rCount(beam.ids, idx) >= REPEAT_LIMIT
       THEN [logProb |-> newLogProb, ids |-> beam.ids, finished |-> TRUE]
     ELSE [logProb |-> newLogProb, ids |-> Append(beam.ids, idx),
           finished |-> FALSE]

\* the candidate one top index gives
Extend(beam, logProbs, idx) ==
  LET newLogProb == Add(beam.logProb, logProbs[idx])
  IN IF idx = EOS
       THEN [logProb |-> newLogProb, ids |-> beam.ids, finished |-> TRUE]
     ELSE IF rCount(beam.ids, idx) >= REPEAT_LIMIT
       THEN [logProb |-> newLogProb, ids |-> beam.ids, finished |-> TRUE]
     ELSE [logProb |-> newLogProb, ids |-> Append(beam.ids, idx),
           finished |-> FALSE]

\* mutant: the mask is taken from the mode of the latest recognize message
\* (a module-level variable), not from the request's own
ExpandSharedMode(beam, logits, mode, beamWidth) ==
  LET on == {i \in AllIds : w[i].pc # "idle"}
      latest == CHOOSE i \in on : \A j \in on : j <= i
      shared == IF on = {} THEN mode ELSE w[latest].mode
      logProbs == applyModeMask(logSoftmax(logits), allowedTokens(shared))
      topIndices == topK(logProbs, beamWidth * 2)
  IN [n \in 1 .. Len(topIndices) |-> Extend(beam, logProbs, topIndices[n])]

\* the candidates of one open beam, in the order of topIndices
Expand(beam, logits, mode, beamWidth) ==
  LET logProbs == applyModeMask(logSoftmax(logits), allowedTokens(mode))
      topIndices == topK(logProbs, beamWidth * 2)
  IN [n \in 1 .. Len(topIndices) |-> Extend(beam, logProbs, topIndices[n])]

\* allCandidates.sort(...); beams = allCandidates.slice(0, beamWidth)
RankAndKeep(allCandidates, beamWidth) ==
  Take(SortByScore(allCandidates), beamWidth)

IsFinished(b) == b.finished

\* mutant: the survivors are returned without preferring completed beams
BeamFinishAll(r) ==
  LET kept == Take(SortByScore(r.beams), r.beamWidth)
  IN [r EXCEPT !.pc = "done",
               !.candidates = [n \in 1 .. Len(kept) |->
                                 [ids |-> Tail(kept[n].ids),
                                  logProb |-> kept[n].logProb]]]

\* after the loop: completed beams if any, sorted, the first beamWidth,
\* each without its leading sos
BeamFinish(r) ==
  LET completed == SelectSeq(r.beams, IsFinished)
      sorted == SortByScore(IF Len(completed) > 0 THEN completed ELSE r.beams)
      kept == Take(sorted, r.beamWidth)
  IN [r EXCEPT !.pc = "done",
               !.candidates = [n \in 1 .. Len(kept) |->
                                 [ids |-> Tail(kept[n].ids),
                                  logProb |-> kept[n].logProb]]]

\* mutant: the next beam is sent to runDecoder whether finished or not
ScanAny(r, j) ==
  [r EXCEPT !.bi = IF j > Len(r.beams) THEN 0 ELSE j,
            !.pc = IF j > Len(r.beams) THEN "sort" ELSE "beam"]

\* the inner loop over beams from index j on: finished beams are pushed,
\* the first open beam is sent to runDecoder (bi = its index; 0: none left)
Scan(r, j) ==
  LET open == {k \in j .. Len(r.beams) : ~r.beams[k].finished}
      k == IF open = {} THEN Len(r.beams) + 1
           ELSE CHOOSE x \in open : \A y \in open : x <= y
      carried == [n \in 1 .. (k - j) |-> CarryOver(r.beams[j + n - 1])]
  IN [r EXCEPT !.allCandidates = @ \o carried,
               !.bi = IF open = {} THEN 0 ELSE k,
               !.pc = IF open = {} THEN "sort" ELSE "beam"]

\* top of the beam loop: a new round or the end of the search
BeamLoop(r) ==
  IF BeamLoopGuard(r.step, r.maxSteps)
    THEN Scan([r EXCEPT !.allCandidates = <<>>], 1)
  ELSE BeamFinish(r)

\* the end of a round: sort, slice, leave when every beam is finished
EndRound(r) ==
  LET beams == RankAndKeep(r.allCandidates, r.beamWidth)
      \* rounds, pool: the number of rounds ranked so far and the whole
      \* allCandidates of the last one (history, not read by the code)
      r1 == [r EXCEPT !.beams = beams,
                      !.rounds = @ + 1,
                      !.pool = r.allCandidates]
  IN IF \A n \in 1 .. Len(beams) : beams[n].finished THEN BeamFinish(r1)
     ELSE LET r2 == BeamLoop([r1 EXCEPT !.step = @ + 1])
          IN IF r2.pc = "sort" THEN BeamFinish(r2) ELSE r2

\* the body of the beam loop after runDecoder returned logits for beam bi
BeamBody(r, logits) ==
  LET cands == Expand(r.beams[r.bi], logits, r.mode, r.beamWidth)
      r1 == Scan([r EXCEPT !.allCandidates = @ \o cands], r.bi + 1)
  IN IF r1.pc = "sort" THEN EndRound(r1) ELSE r1

\* the greedy branch up to its first runDecoder
GreedyStart(r) ==
  GreedyLoop([r EXCEPT !.ids = <<SOS>>, !.repeatCount = 0,
                       !.lastToken = -1, !.step = 0])

\* the beam branch up to its first runDecoder
BeamStart(r) ==
  LET r1 == BeamLoop([r EXCEPT
                !.beams = <<[logProb |-> Fin(0), ids |-> <<SOS>>,
                             finished |-> FALSE]>>,
                !.step = 0])
  IN IF r1.pc = "sort" THEN BeamFinish(r1) ELSE r1

\* after the encoder: if (beamWidth <= 1) { greedy } else { beam }
StartDecode(r) == IF r.beamWidth <= 1 THEN GreedyStart(r) ELSE BeamStart(r)

\* ------------------------------------------------------------ actions
\* self.postMessage({ type: "recognize-done", id: msg.id, candidates, ... })
DoneMsg(id, candidates) ==
  [type |-> "recognize-done", id |-> id, candidates |-> candidates]

\* catch (err): self.postMessage({ type: "recognize-error", id: msg.id, ... })
ErrorMsg(id) ==
  [type |-> "recognize-error", id |-> id, candidates |-> <<>>]

\* The handler of request id ran up to its next await (pc greedy or beam: a
\* runDecoder call is now in flight) or to its postMessage (pc done).
Advance(id, r, h) ==
  LET calls == r.pc \in {"greedy", "beam"}
      h1 == IF calls
              THEN [h EXCEPT !.decodeCalls = @ + 1,
                             !.decodeArgs = @ \cup {DecoderFeatures(r)}]
            ELSE h
      msg == DoneMsg(id, r.candidates)
      h2 == IF r.pc = "done" THEN [h1 EXCEPT !.posts = Append(@, msg)] ELSE h1
  IN /\ w' = [w EXCEPT ![id] = r]
     /\ hist' = [hist EXCEPT ![id] = h2]
     /\ toEngine' = IF r.pc = "done" THEN Append(toEngine, msg) ELSE toEngine

\* The awaited run of request id threw: the catch block posts the error.
Throw(id) ==
  LET msg == ErrorMsg(id)
  IN /\ w' = [w EXCEPT ![id].pc = "done"]
     /\ hist' = [hist EXCEPT ![id].failed = TRUE,
                             ![id].posts = Append(@, msg)]
     /\ toEngine' = Append(toEngine, msg)

\* InferenceEngine.recognize: a new id, a pending entry, a message to the
\* worker (the engine is initialised). The mode is the field of that name of
\* the worker's RecognizeMsg; the recognize of inference.ts posts none, which
\* handleRecognize treats like "auto".
EngineRecognize(idSet, loads) ==
  /\ nextId \in idSet
  /\ \E load \in loads, mode \in Modes :
       toWorker' = Append(toWorker,
                          [type |-> "recognize", id |-> nextId,
                           beamWidth |-> load[1], maxSteps |-> load[2],
                           mode |-> mode])
  /\ pending' = pending \cup {nextId}
  /\ nextId' = nextId + 1
  /\ UNCHANGED <<settled, delivered, toEngine, w, encSeq, hist, otherVars>>

\* self.onmessage with a recognize message: handleRecognize runs up to the
\* await of encoderSession.run
WorkerOnMessage ==
  /\ toWorker # <<>>
  /\ LET msg == Head(toWorker)
     IN /\ msg.type = "recognize"
        /\ w' = [w EXCEPT ![msg.id] =
                   [IdleCall EXCEPT !.pc = "encode",
                                    !.beamWidth = msg.beamWidth,
                                    !.maxSteps = msg.maxSteps,
                                    !.mode = msg.mode]]
        /\ hist' = [hist EXCEPT ![msg.id].encodeCalls = @ + 1]
  /\ toWorker' = Tail(toWorker)
  /\ UNCHANGED <<nextId, pending, settled, delivered, toEngine, encSeq, otherVars>>

\* encoderSession.run resolved: a new features tensor, then the decode
\* branch up to its first runDecoder
EncodeReturn(id) ==
  /\ w[id].pc = "encode"
  /\ encSeq' = encSeq + 1
  /\ Advance(id, StartDecode([w[id] EXCEPT !.encFeatures = encSeq + 1]),
             [hist[id] EXCEPT !.encReturned = @ \cup {encSeq + 1}])
  /\ UNCHANGED <<nextId, pending, settled, delivered, toWorker, otherVars>>

\* encoderSession.run rejected
EncodeFail(id) ==
  /\ w[id].pc = "encode"
  /\ Throw(id)
  /\ UNCHANGED <<nextId, pending, settled, delivered, toWorker, encSeq, otherVars>>

\* runDecoder resolved in the greedy loop
GreedyStep(id) ==
  /\ w[id].pc = "greedy"
  /\ \E logits \in LogitRows : Advance(id, GreedyBody(w[id], logits), hist[id])
  /\ UNCHANGED <<nextId, pending, settled, delivered, toWorker, encSeq, otherVars>>

\* runDecoder resolved in the beam loop
BeamStep(id) ==
  /\ w[id].pc = "beam"
  /\ \E logits \in LogitRows : Advance(id, BeamBody(w[id], logits), hist[id])
  /\ UNCHANGED <<nextId, pending, settled, delivered, toWorker, encSeq, otherVars>>

\* decoderSession.run rejected
DecodeFail(id) ==
  /\ w[id].pc \in {"greedy", "beam"}
  /\ Throw(id)
  /\ UNCHANGED <<nextId, pending, settled, delivered, toWorker, encSeq, otherVars>>

\* mutant: an error message rejects every pending request
SettlesAll(data, pend) ==
  IF data.type = "recognize-error" THEN pend
  ELSE IF data.id \in pend THEN {data.id} ELSE {}

\* the ids whose promise a worker message settles
Settles(data, pend) == IF data.id \in pend THEN {data.id} ELSE {}

\* worker.onmessage of the engine
EngineOnMessage ==
  /\ toEngine # <<>>
  /\ LET data == Head(toEngine)
         hit == Settles(data, pending)
     IN /\ data.type \in {"recognize-done", "recognize-error"}
        /\ pending' = pending \ hit
        /\ settled' = [i \in AllIds |->
                         IF i \in hit
                           THEN IF data.type = "recognize-error"
                                  THEN "rejected" ELSE "resolved"
                         ELSE settled[i]]
        /\ delivered' = [i \in AllIds |->
                           IF i \in hit /\ data.type = "recognize-done"
                             THEN data.candidates ELSE delivered[i]]
  /\ toEngine' = Tail(toEngine)
  /\ UNCHANGED <<nextId, toWorker, w, encSeq, hist, otherVars>>

\* ----------------------------------------------------- specifications
\* One request at a time, over the whole range of its parameters.
SeqIds == {0}

\* <<beamWidth, maxSteps>> of the requests
Loads ==
  {l \in (1 .. MaxBeamWidth) \X (1 .. MaxSteps) : l[1] * l[2] <= MaxWork}

Next ==
  \/ EngineRecognize(SeqIds, Loads)
  \/ WorkerOnMessage
  \/ \E id \in AllIds : EncodeReturn(id)
  \/ \E id \in AllIds : EncodeFail(id)
  \/ \E id \in AllIds : GreedyStep(id)
  \/ \E id \in AllIds : BeamStep(id)
  \/ \E id \in AllIds : DecodeFail(id)
  \/ EngineOnMessage

Spec == Init /\ [][Next]_vars

\* Two requests in flight at once, interleaved at their awaits, over a
\* smaller range of parameters.
ConcIds == {0, 1}
ConcLoads == {<<1, 2>>, <<2, 1>>}

ConcNext ==
  \/ EngineRecognize(ConcIds, ConcLoads)
  \/ WorkerOnMessage
  \/ \E id \in AllIds : EncodeReturn(id)
  \/ \E id \in AllIds : EncodeFail(id)
  \/ \E id \in AllIds : GreedyStep(id)
  \/ \E id \in AllIds : BeamStep(id)
  \/ \E id \in AllIds : DecodeFail(id)
  \/ EngineOnMessage

SpecConc == Init /\ [][ConcNext]_vars

\* One request with a beam wider than the vocabulary.
WideLoads == {<<12, 2>>}

WideNext ==
  \/ EngineRecognize(SeqIds, WideLoads)
  \/ WorkerOnMessage
  \/ \E id \in AllIds : EncodeReturn(id)
  \/ \E id \in AllIds : EncodeFail(id)
  \/ \E id \in AllIds : BeamStep(id)
  \/ \E id \in AllIds : DecodeFail(id)
  \/ EngineOnMessage

SpecWide == Init /\ [][WideNext]_vars

\* The greedy loop and the beam loop with beamWidth 1 against one executor:
\* as long as both ask for the same ids they get the same logits.
PairCall(ms, mode) ==
  [IdleCall EXCEPT !.beamWidth = 1, !.maxSteps = ms, !.mode = mode,
                   !.encFeatures = 1]

EquivInit ==
  /\ nextId = 0
  /\ pending = {}
  /\ settled = [i \in AllIds |-> "none"]
  /\ delivered = [i \in AllIds |-> <<>>]
  /\ toWorker = <<>>
  /\ toEngine = <<>>
  /\ w = [i \in AllIds |-> IdleCall]
  /\ encSeq = 0
  /\ hist = [i \in AllIds |-> NoHist]
  /\ \E ms \in 1 .. MaxSteps, mode \in Modes :
       pair = [on |-> TRUE, g |-> GreedyStart(PairCall(ms, mode)),
               b |-> BeamStart(PairCall(ms, mode))]
  /\ Rest

\* both loops wait for the logits of the same ids
PairStep ==
  /\ pair.g.pc = "greedy"
  /\ pair.b.pc = "beam"
  /\ pair.b.beams[pair.b.bi].ids = pair.g.ids
  /\ \E logits \in LogitRows :
       pair' = [pair EXCEPT !.g = GreedyBody(pair.g, logits),
                            !.b = BeamBody(pair.b, logits)]
  /\ UNCHANGED <<workerVars, restVars>>

\* the greedy loop has ended, the beam loop goes on
PairBeamAlone ==
  /\ pair.g.pc = "done"
  /\ pair.b.pc = "beam"
  /\ \E logits \in LogitRows :
       pair' = [pair EXCEPT !.b = BeamBody(pair.b, logits)]
  /\ UNCHANGED <<workerVars, restVars>>

EquivNext == PairStep \/ PairBeamAlone

SpecEquiv == EquivInit /\ [][EquivNext]_vars

\* ------------------------------------------------- claims: vocabulary
\* the requests whose handler has started
Started == {id \in AllIds : w[id].pc # "idle"}
\* the requests that posted recognize-done
Done == {id \in AllIds : w[id].pc = "done" /\ ~hist[id].failed}
Greedy(id) == w[id].beamWidth <= 1
\* positions of a sequence
Pos(seq) == 1 .. Len(seq)
\* a decode sequence without its leading sos
Body(ids) == IF ids = <<>> THEN <<>> ELSE Tail(ids)
\* ids holds more than n equal tokens in a row
RunOver(ids, n) ==
  \E i \in 1 .. (Len(ids) - n) : \A j \in i .. (i + n) : ids[j] = ids[i]

\* C1: a greedy request makes at most maxSteps decodeStep calls, each call
\* follows one more appended token (decodeCalls = step + 1 <= maxSteps, so
\* the loop ends), and the sequence it returns has at most maxSteps tokens.
C1_GreedyBounded ==
  \A id \in Started :
    Greedy(id) =>
      /\ hist[id].decodeCalls <= w[id].maxSteps
      /\ w[id].pc = "greedy" =>
           /\ w[id].step < w[id].maxSteps
           /\ hist[id].decodeCalls = w[id].step + 1
           /\ Len(w[id].ids) = w[id].step + 1
      /\ id \in Done =>
           /\ Len(w[id].candidates) = 1
           /\ Len(w[id].candidates[1].ids) <= w[id].maxSteps

\* C1 witness: a greedy request ran to the bound: maxSteps calls, maxSteps
\* tokens returned.
C1_Witness ==
  \E id \in Done :
    /\ Greedy(id) /\ w[id].maxSteps >= 2
    /\ hist[id].decodeCalls = w[id].maxSteps
    /\ Len(w[id].candidates[1].ids) = w[id].maxSteps

\* C2: a beam request runs at most maxSteps rounds, a runDecoder call is in
\* flight only in a round below maxSteps, no beam is longer than the rounds
\* run so far (plus the sos), and every returned candidate has at most
\* maxSteps tokens.
C2_BeamBounded ==
  \A id \in Started :
    ~Greedy(id) =>
      /\ w[id].rounds <= w[id].maxSteps
      /\ hist[id].decodeCalls <= w[id].beamWidth * w[id].maxSteps
      /\ w[id].pc = "beam" =>
           /\ w[id].rounds = w[id].step
           /\ w[id].step < w[id].maxSteps
      /\ \A n \in Pos(w[id].beams) : Len(w[id].beams[n].ids) <= w[id].rounds + 1
      /\ id \in Done =>
           \A n \in Pos(w[id].candidates) :
             Len(w[id].candidates[n].ids) <= w[id].maxSteps

\* C2 witness: a beam request ran maxSteps rounds and returns a candidate of
\* maxSteps tokens.
C2_Witness ==
  \E id \in Done :
    /\ ~Greedy(id) /\ w[id].maxSteps >= 2
    /\ w[id].rounds = w[id].maxSteps
    /\ \E n \in Pos(w[id].candidates) :
         Len(w[id].candidates[n].ids) = w[id].maxSteps

\* C3: in number mode every token of every returned candidate is in
\* NUMBER_MODE_ALLOWED.
C3_OnlyAllowed ==
  \A id \in Done :
    w[id].mode = "number" =>
      \A n \in Pos(w[id].candidates) :
        \A j \in Pos(w[id].candidates[n].ids) :
          w[id].candidates[n].ids[j] \in NUMBER_MODE_ALLOWED

\* C4: no sequence under decode (the sos left out) and no returned candidate
\* holds more than REPEAT_LIMIT equal tokens in a row, and a request whose
\* executor never failed ends with recognize-done.
C4_NoLongRun ==
  \A id \in Started :
    /\ ~RunOver(Body(w[id].ids), REPEAT_LIMIT)
    /\ \A n \in Pos(w[id].beams) :
         ~RunOver(Body(w[id].beams[n].ids), REPEAT_LIMIT)
    /\ \A n \in Pos(w[id].candidates) :
         ~RunOver(w[id].candidates[n].ids, REPEAT_LIMIT)
    /\ id \in Done =>
         /\ Len(hist[id].posts) = 1
         /\ hist[id].posts[1].type = "recognize-done"

\* C4 witness: the repeat limit finished a beam: a beam request returns a
\* candidate of exactly REPEAT_LIMIT equal tokens that was still open after
\* REPEAT_LIMIT rounds and was finished in the next one.
C4_Witness ==
  \E id \in Done :
    /\ ~Greedy(id)
    /\ w[id].rounds = REPEAT_LIMIT + 1
    /\ \E n \in Pos(w[id].candidates) :
         /\ w[id].candidates[n].ids = <<0, 0, 0>>
         /\ \E k \in Pos(w[id].pool) :
              /\ w[id].pool[k].finished
              /\ w[id].pool[k].ids = <<SOS, 0, 0, 0>>
              /\ w[id].pool[k].logProb = w[id].candidates[n].logProb

\* s is a prefix of t
IsPrefix(s, t) == Len(s) <= Len(t) /\ SubSeq(t, 1, Len(s)) = s

Higher(x, y) ==
  LET lx == IF Len(x.ids) >= 1 THEN Len(x.ids) ELSE 1
      ly == IF Len(y.ids) >= 1 THEN Len(y.ids) ELSE 1
  IN /\ x.logProb.fin
     /\ y.logProb.fin => x.logProb.v * ly > y.logProb.v * lx

\* how often x occurs in seq
Count(seq, x) == Cardinality({n \in Pos(seq) : seq[n] = x})

\* C6: after every round the beam set is drawn from the round's pool (the
\* carried finished beams and the extensions), holds min(B, pool size) >= 1
\* beams, and no candidate left out scores strictly higher than a kept one.
C6_TopBKept ==
  \A id \in Started :
    (~Greedy(id) /\ w[id].pc \in {"beam", "done"} /\ ~hist[id].failed) =>
      LET beams == w[id].beams
          pool == w[id].pool
      IN /\ Len(beams) >= 1
         /\ Len(beams) <= w[id].beamWidth
         /\ w[id].rounds >= 1 =>
              /\ Len(beams) = IF Len(pool) < w[id].beamWidth
                                THEN Len(pool) ELSE w[id].beamWidth
              /\ \A n \in Pos(beams) :
                   Count(beams, beams[n]) <= Count(pool, beams[n])
              /\ \A k \in Pos(pool) :
                   Count(beams, pool[k]) < Count(pool, pool[k]) =>
                     \A n \in Pos(beams) : ~Higher(pool[k], beams[n])

\* C6 witness: a round whose pool held carried finished beams and
\* extensions, more than B in all, and a kept beam longer than a left-out
\* candidate of higher logProb.
C6_Witness ==
  \E id \in Started :
    /\ ~Greedy(id) /\ w[id].rounds >= 2
    /\ Len(w[id].pool) > w[id].beamWidth
    /\ \E k \in Pos(w[id].pool), n \in Pos(w[id].beams) :
         /\ Count(w[id].beams, w[id].pool[k]) = 0
         /\ w[id].pool[k].finished
         /\ ~w[id].beams[n].finished
         /\ Len(w[id].beams[n].ids) > Len(w[id].pool[k].ids)
         /\ GtVal(w[id].pool[k].logProb, w[id].beams[n].logProb)

\* C7: when a round is ranked, every finished beam of the beam set is in
\* the round's pool as it was: finished, same ids, same logProb.
C7_FinishedCarried ==
  [][\A id \in AllIds :
       w'[id].rounds = w[id].rounds + 1 =>
         \A n \in Pos(w[id].beams) :
           w[id].beams[n].finished =>
             Count(w'[id].pool, w[id].beams[n]) >=
               Count(SelectSeq(w[id].beams, IsFinished), w[id].beams[n])]_vars

\* C7 witness: a beam finished in an earlier round (a beam finished in round
\* k has k ids, so its ids are fewer than the rounds run) was carried through
\* a later round and kept, beside an open beam.
C7_Witness ==
  \E id \in Started :
    /\ ~Greedy(id) /\ w[id].rounds >= 2
    /\ \E n \in Pos(w[id].beams) :
         /\ w[id].beams[n].finished
         /\ Len(w[id].beams[n].ids) < w[id].rounds
    /\ \E n \in Pos(w[id].beams) : ~w[id].beams[n].finished

\* the beam a returned candidate came from
AsBeam(c) == [ids |-> <<SOS>> \o c.ids, logProb |-> c.logProb]

\* C8: a beam request returns 1 .. B candidates, best first by normalised
\* score; they are the finished beams of the final beam set when there is
\* one, all its beams otherwise, each with its logProb and its ids without
\* the sos.
C8_FinalRanking ==
  \A id \in Done :
    ~Greedy(id) =>
      LET cands == w[id].candidates
          fin == SelectSeq(w[id].beams, IsFinished)
          src == IF Len(fin) > 0 THEN fin ELSE w[id].beams
          Strip(b) == [ids |-> Tail(b.ids), logProb |-> b.logProb]
      IN /\ Len(cands) >= 1
         /\ Len(cands) <= w[id].beamWidth
         /\ \A n \in 1 .. (Len(cands) - 1) :
              ~Higher(AsBeam(cands[n + 1]), AsBeam(cands[n]))
         /\ Len(cands) = Len(src)
         /\ \A n \in Pos(src) :
              Count(cands, Strip(src[n])) =
                Cardinality({k \in Pos(src) : Strip(src[k]) = Strip(src[n])})

\* C8 witness: the search ended at maxSteps with an open beam and two
\* finished beams of different scores in the beam set, and returned the two.
C8_Witness ==
  \E id \in Done :
    /\ ~Greedy(id)
    /\ Len(w[id].candidates) = 2
    /\ Len(w[id].beams) = 3
    /\ Higher(AsBeam(w[id].candidates[1]), AsBeam(w[id].candidates[2]))

\* C9: a request calls the encoder once, before its first decoder call, and
\* every decoder call of the request gets the features (and mask) that this
\* one encoder call returned, whatever other requests do in between.
C9_EncodeOnce ==
  \A id \in AllIds :
    /\ hist[id].encodeCalls <= 1
    /\ (id \in Started) = (hist[id].encodeCalls = 1)
    /\ Cardinality(hist[id].encReturned) <= 1
    /\ hist[id].decodeCalls > 0 =>
         /\ Cardinality(hist[id].encReturned) = 1
         /\ hist[id].decodeArgs = hist[id].encReturned
         /\ hist[id].encReturned = {w[id].encFeatures}

\* C9 witness: a request made its second decoder call after the encoder had
\* run for another request.
C9_Witness ==
  \E id \in AllIds :
    /\ hist[id].decodeCalls >= 2
    /\ w[id].encFeatures = 1
    /\ encSeq = 2

\* C10: a request posts one message, when its handler ends: recognize-error
\* with its id and no candidates if the encoder or a decoder call failed,
\* recognize-done otherwise; nothing is called again after a failure. The
\* engine rejects a request only if it failed and resolves it only with the
\* candidates of its recognize-done, and a request stays pending until its
\* own message arrives.
C10_HardFailure ==
  \A id \in AllIds :
    LET h == hist[id]
    IN /\ Len(h.posts) <= 1
       /\ (w[id].pc = "done") = (Len(h.posts) = 1)
       /\ h.failed => w[id].pc = "done" /\ w[id].candidates = <<>>
       /\ Len(h.posts) = 1 =>
            /\ h.posts[1].id = id
            /\ (h.posts[1].type = "recognize-error") = h.failed
            /\ (h.posts[1].type = "recognize-done") = ~h.failed
            /\ h.failed => h.posts[1].candidates = <<>>
            /\ ~h.failed => h.posts[1].candidates = w[id].candidates
       /\ (id \in pending) = (id < nextId /\ settled[id] = "none")
       /\ settled[id] # "none" => Len(h.posts) = 1
       /\ settled[id] = "rejected" => h.failed /\ delivered[id] = <<>>
       /\ settled[id] = "resolved" =>
            ~h.failed /\ delivered[id] = w[id].candidates

\* C10 witness: a request whose decoder call failed has been rejected while
\* another request is still pending, its handler waiting for the decoder.
C10_Witness ==
  \E i \in AllIds, j \in AllIds :
    /\ i # j
    /\ settled[i] = "rejected"
    /\ hist[i].decodeCalls >= 1
    /\ j \in pending
    /\ w[j].pc \in {"greedy", "beam"}

\* ------------------------------------------------------------ C11
\* ids starts with the sos and holds no eos after it
SosThenNoEos(ids) ==
  /\ Len(ids) >= 1
  /\ ids[1] = SOS
  /\ \A j \in 2 .. Len(ids) : ids[j] # EOS

IsoLoads == {<<1, 2>>, <<2, 2>>}

\* the logits a tensor gets, by the parity of length plus last token of ids
Scripts ==
  {<<Row(3, MaxLogit), Row(0, 0)>>,
   <<Row(0, 0), Row(3, MaxLogit)>>,
   <<Row(0, MaxLogit), Row(EOS, 1)>>}

\* engine and worker as constructed, no request
Quiet ==
  /\ nextId = 0
  /\ pending = {}
  /\ settled = [i \in AllIds |-> "none"]
  /\ delivered = [i \in AllIds |-> <<>>]
  /\ toWorker = <<>>
  /\ toEngine = <<>>
  /\ w = [i \in AllIds |-> IdleCall]
  /\ encSeq = 0
  /\ hist = [i \in AllIds |-> NoHist]
  /\ pair = [on |-> FALSE, g |-> IdleCall, b |-> IdleCall]

IsoInit ==
  /\ Quiet
  /\ tk = NoCall
  /\ sel = NoSelection
  /\ eng = NewEngine
  /\ oracle \in [AllIds -> Scripts]
  /\ More

\* decoderSession.run on the features of the tensor of request t
DecoderRun(t, ids) == oracle[t][((Len(ids) + ids[Len(ids)]) % 2) + 1]

\* the request whose encoder call returned these features
TensorOf(features) == CHOOSE t \in AllIds : features \in hist[t].encReturned

\* runDecoder resolved in the greedy loop, deterministic executor
GreedyStepOracle(id) ==
  /\ w[id].pc = "greedy"
  /\ LET logits == DecoderRun(TensorOf(DecoderFeatures(w[id])), w[id].ids)
     IN Advance(id, GreedyBody(w[id], logits), hist[id])
  /\ UNCHANGED <<nextId, pending, settled, delivered, toWorker, encSeq, otherVars>>

\* runDecoder resolved in the beam loop, deterministic executor
BeamStepOracle(id) ==
  /\ w[id].pc = "beam"
  /\ LET logits == DecoderRun(TensorOf(DecoderFeatures(w[id])),
                              w[id].beams[w[id].bi].ids)
     IN Advance(id, BeamBody(w[id], logits), hist[id])
  /\ UNCHANGED <<nextId, pending, settled, delivered, toWorker, encSeq, otherVars>>

IsoNext ==
  \/ EngineRecognize(ConcIds, IsoLoads)
  \/ WorkerOnMessage
  \/ \E id \in AllIds : EncodeReturn(id)
  \/ \E id \in AllIds : GreedyStepOracle(id)
  \/ \E id \in AllIds : BeamStepOracle(id)
  \/ EngineOnMessage

SpecIso == IsoInit /\ [][IsoNext]_vars

\* the candidates of a handler that runs from r to its end on tensor t
\* with nothing else in between
RECURSIVE RunAlone(_, _)
RunAlone(r, t) ==
  IF r.pc = "greedy" THEN RunAlone(GreedyBody(r, DecoderRun(t, r.ids)), t)
  ELSE IF r.pc = "beam"
    THEN RunAlone(BeamBody(r, DecoderRun(t, r.beams[r.bi].ids)), t)
  ELSE r.candidates

\* what request id returns when it is the only request
Alone(id) ==
  RunAlone(StartDecode([IdleCall EXCEPT !.pc = "encode",
                                        !.beamWidth = w[id].beamWidth,
                                        !.maxSteps = w[id].maxSteps,
                                        !.mode = w[id].mode]), id)

\* C12: a request that ran interleaved with another one posts and delivers
\* exactly the candidates it returns when it runs alone against the same
\* executor.
C12_SameAsAlone ==
  \A id \in Done :
    /\ w[id].candidates = Alone(id)
    /\ hist[id].posts[1].candidates = Alone(id)
    /\ settled[id] = "resolved" => delivered[id] = Alone(id)

\* C12 witness: two requests with different modes and the same executor
\* behaviour were decoded at the same time (the encoder answered the second
\* one first) and ended with different candidates.
C12_Witness ==
  /\ Done = AllIds
  /\ w[0].mode # w[1].mode
  /\ oracle[0] = oracle[1]
  /\ w[0].beamWidth = w[1].beamWidth
  /\ w[0].encFeatures = 2 /\ w[1].encFeatures = 1
  /\ hist[0].decodeCalls >= 2 /\ hist[1].decodeCalls >= 2
  /\ w[0].candidates # w[1].candidates

\* ------------------------------------------------------ tokenizer.ts
\* longest token array given to the repair functions
MaxTokens == 6

\* the tokens the arrays are made of: the braces, the two commands with a
\* fixed number of arguments, another command that needs arguments, a symbol
Symbols == {"{", "}", "\\frac", "\\sqrt", "\\sum", "x"}

\* mutant: "depth >= 0" for "depth > 0": a '}' at depth 0 is kept
balanceBracesKeepsAll(tokens) ==
  LET f[n \in 0 .. Len(tokens)] ==
        IF n = 0 THEN [depth |-> 0, result |-> <<>>]
        ELSE LET p == f[n - 1]
                 t == tokens[n]
             IN IF t = "{"
                  THEN [depth |-> p.depth + 1, result |-> Append(p.result, t)]
                ELSE IF t = "}"
                  THEN IF p.depth >= 0
                         THEN [depth |-> p.depth - 1,
                               result |-> Append(p.result, t)]
                       ELSE p
                ELSE [depth |-> p.depth, result |-> Append(p.result, t)]
      last == f[Len(tokens)]
  IN last.result \o [k \in 1 .. last.depth |-> "}"]

\* balanceBraces: one pass with a depth counter, then the missing '}'
balanceBraces(tokens) ==
  LET f[n \in 0 .. Len(tokens)] ==
        IF n = 0 THEN [depth |-> 0, result |-> <<>>]
        ELSE LET p == f[n - 1]
                 t == tokens[n]
             IN IF t = "{"
                  THEN [depth |-> p.depth + 1, result |-> Append(p.result, t)]
                ELSE IF t = "}"
                  THEN IF p.depth > 0
                         THEN [depth |-> p.depth - 1,
                               result |-> Append(p.result, t)]
                       ELSE p
                ELSE [depth |-> p.depth, result |-> Append(p.result, t)]
      last == f[Len(tokens)]
  IN last.result \o [k \in 1 .. last.depth |-> "}"]

\* mutant: the group ends at the first '}', nested or not
RECURSIVE GroupEndShallow(_, _, _)
GroupEndShallow(tokens, i, depth) ==
  IF i <= Len(tokens) /\ depth > 0
    THEN GroupEndShallow(tokens, i + 1, IF tokens[i] = "}" THEN 0 ELSE depth)
  ELSE i

\* while (i < tokens.length && depth > 0): the index behind the group whose
\* '{' has been read, i the next index to read (indices from 1)
RECURSIVE GroupEnd(_, _, _)
GroupEnd(tokens, i, depth) ==
  IF i <= Len(tokens) /\ depth > 0
    THEN GroupEnd(tokens, i + 1,
                  IF tokens[i] = "{" THEN depth + 1
                  ELSE IF tokens[i] = "}" THEN depth - 1 ELSE depth)
  ELSE i

\* while (i < tokens.length && groups < arity): the index behind the
\* collected arguments, each a braced group or one token
RECURSIVE CollectEnd(_, _, _, _)
CollectEnd(tokens, i, groups, arity) ==
  IF i <= Len(tokens) /\ groups < arity
    THEN IF tokens[i] = "{"
           THEN CollectEnd(tokens, GroupEnd(tokens, i + 1, 1), groups + 1, arity)
         ELSE CollectEnd(tokens, i + 1, groups + 1, arity)
  ELSE i

\* while (i < tokens.length && tokens[i] === "{"): the index behind the
\* extra braced groups
RECURSIVE SkipEnd(_, _)
SkipEnd(tokens, i) ==
  IF i <= Len(tokens) /\ tokens[i] = "{"
    THEN SkipEnd(tokens, GroupEnd(tokens, i + 1, 1))
  ELSE i

\* the outer loop of fixFracArgs and of fixSqrtArgs from index i on: the
\* command and its collected arguments are copied, the extra groups skipped
RECURSIVE FixFrom(_, _, _, _)
FixFrom(tokens, i, command, arity) ==
  IF i > Len(tokens) THEN <<>>
  ELSE IF tokens[i] = command
    THEN LET e == CollectEnd(tokens, i + 1, 0, arity)
         IN SubSeq(tokens, i, e - 1)
              \o FixFrom(tokens, SkipEnd(tokens, e), command, arity)
  ELSE <<tokens[i]>> \o FixFrom(tokens, i + 1, command, arity)

\* mutant: only one group is collected after \frac
fixFracArgsOne(tokens) == FixFrom(tokens, 1, "\\frac", 1)

fixFracArgs(tokens) == FixFrom(tokens, 1, "\\frac", 2)

fixSqrtArgs(tokens) == FixFrom(tokens, 1, "\\sqrt", 1)

repairLatex(tokens) == fixSqrtArgs(fixFracArgs(balanceBraces(tokens)))

NEEDS_ARGS ==
  {"\\sum", "\\int", "\\sin", "\\cos", "\\tan", "\\log", "\\lim", "\\sqrt",
   "\\frac"}

\* countBracedGroups from index i on: braced groups only, a bare token ends
\* the count
RECURSIVE CountFrom(_, _)
CountFrom(tokens, i) ==
  IF i <= Len(tokens) /\ tokens[i] = "{"
    THEN 1 + CountFrom(tokens, GroupEnd(tokens, i + 1, 1))
  ELSE 0

countBracedGroups(tokens) == CountFrom(tokens, 1)

isCompleteExpression(tokens) ==
  IF Len(tokens) = 0 THEN FALSE
  ELSE IF Len(tokens) = 1 /\ tokens[1] \in NEEDS_ARGS THEN FALSE
  ELSE \A i \in 1 .. Len(tokens) :
         LET remaining == SubSeq(tokens, i + 1, Len(tokens))
         IN /\ tokens[i] = "\\frac" => ~(countBracedGroups(remaining) < 2)
            /\ tokens[i] = "\\sqrt" => ~(countBracedGroups(remaining) < 1)

\* the vocabulary of the tokenizer's tests
TestVocab ==
  [idx2word |-> [i \in 0 .. 5 |-> <<"<pad>", "<sos>", "<eos>", "x", "+", "y">>[i + 1]],
   special_tokens |-> [pad |-> 0, sos |-> SOS, eos |-> EOS],
   vocab_size |-> 6]

\* longest id array given to decodeTokenIds, and the largest id in it
MaxIds == 4
MaxId == 6

\* words.join(sep): a string as the sequence of its pieces
Join(words, sep) ==
  [n \in 1 .. (2 * Len(words) - 1) |->
     IF n % 2 = 1 THEN words[(n + 1) \div 2] ELSE sep]

\* mutant: pad is not in the skip set
decodeTokenIdsKeepsPad(ids, vocab) ==
  LET skip == {vocab.special_tokens.sos, vocab.special_tokens.eos}
      words[n \in 0 .. Len(ids)] ==
        IF n = 0 THEN <<>>
        ELSE IF ids[n] \in skip THEN words[n - 1]
        ELSE IF ids[n] \in DOMAIN vocab.idx2word
          THEN Append(words[n - 1], vocab.idx2word[ids[n]])
        ELSE words[n - 1]
  IN Join(words[Len(ids)], " ")

decodeTokenIds(ids, vocab) ==
  LET skip == {vocab.special_tokens.sos, vocab.special_tokens.eos,
               vocab.special_tokens.pad}
      words[n \in 0 .. Len(ids)] ==
        IF n = 0 THEN <<>>
        ELSE IF ids[n] \in skip THEN words[n - 1]
        ELSE IF ids[n] \in DOMAIN vocab.idx2word
          THEN Append(words[n - 1], vocab.idx2word[ids[n]])
        ELSE words[n - 1]
  IN Join(words[Len(ids)], " ")

\* One call of a function of the tokenizer on any array within the bounds.
TokInit ==
  /\ Quiet
  /\ \/ \E n \in 0 .. MaxTokens : \E t \in [1 .. n -> Symbols] :
          tk = [NoCall EXCEPT !.pc = "tokens", !.tokens = t]
     \/ \E n \in 0 .. MaxIds : \E i \in [1 .. n -> 0 .. MaxId] :
          tk = [NoCall EXCEPT !.pc = "ids", !.ids = i]
  /\ sel = NoSelection
  /\ eng = NewEngine
  /\ oracle = NoOracle
  /\ More

BalanceBraces ==
  /\ tk.pc = "tokens"
  /\ tk' = [tk EXCEPT !.pc = "balanced", !.out = balanceBraces(tk.tokens)]
  /\ UNCHANGED <<workerVars, pair, sel, eng, oracle, ld, voc, mc, pp, am, ui>>

RepairLatex ==
  /\ tk.pc = "tokens"
  /\ tk' = [tk EXCEPT !.pc = "repaired", !.out = repairLatex(tk.tokens)]
  /\ UNCHANGED <<workerVars, pair, sel, eng, oracle, ld, voc, mc, pp, am, ui>>

IsCompleteExpression ==
  /\ tk.pc = "tokens"
  /\ tk' = [tk EXCEPT !.pc = "checked", !.ok = isCompleteExpression(tk.tokens)]
  /\ UNCHANGED <<workerVars, pair, sel, eng, oracle, ld, voc, mc, pp, am, ui>>

DecodeTokenIds ==
  /\ tk.pc = "ids"
  /\ tk' = [tk EXCEPT !.pc = "decoded",
                      !.out = decodeTokenIds(tk.ids, TestVocab)]
  /\ UNCHANGED <<workerVars, pair, sel, eng, oracle, ld, voc, mc, pp, am, ui>>

TokNext ==
  \/ BalanceBraces
  \/ RepairLatex
  \/ IsCompleteExpression
  \/ DecodeTokenIds

SpecTok == TokInit /\ [][TokNext]_vars

\* '{' minus '}' among the first n tokens
Sum(s, n) ==
  Cardinality({i \in 1 .. n : s[i] = "{"}) - Cardinality({i \in 1 .. n : s[i] = "}"})

\* the least of the sums over the prefixes of the first n tokens
Low(s, n) == CHOOSE m \in {Sum(s, q) : q \in 0 .. n} :
               \A q \in 0 .. n : m <= Sum(s, q)

\* the braces open after the first n tokens when unmatched '}' do not count
Open(s, n) == Sum(s, n) - Low(s, n)

Balanced(s) ==
  /\ Sum(s, Len(s)) = 0
  /\ \A n \in 0 .. Len(s) : Sum(s, n) >= 0

Unmatched(s, i) == s[i] = "}" /\ Open(s, i - 1) = 0

\* the tokens of s that are not unmatched '}', in order
Matched(s) ==
  LET kept[n \in 0 .. Len(s)] ==
        IF n = 0 THEN <<>>
        ELSE IF Unmatched(s, n) THEN kept[n - 1]
        ELSE Append(kept[n - 1], s[n])
  IN kept[Len(s)]

\* C13: for every token array the output of balanceBraces has as many '{' as
\* '}' and no prefix of negative depth; it is the input without the '}' met
\* at depth 0, in order, followed by one '}' for each brace still open.
C13_Balanced ==
  tk.pc = "balanced" =>
    /\ Balanced(tk.out)
    /\ tk.out = Matched(tk.tokens)
                  \o [k \in 1 .. Open(tk.tokens, Len(tk.tokens)) |-> "}"]

\* an input with an unmatched '}' and an unclosed '{' has been balanced
C13_Witness ==
  /\ tk.pc = "balanced"
  /\ \E i \in 1 .. Len(tk.tokens) : Unmatched(tk.tokens, i)
  /\ Open(tk.tokens, Len(tk.tokens)) > 1
  /\ Len(tk.out) = Len(tk.tokens) + 1

\* the index behind the argument group that starts at j: a balanced {...}
\* span or one bare token; j itself where no argument starts
ArgEnd(s, j) ==
  IF j > Len(s) \/ s[j] = "}" THEN j
  ELSE IF s[j] = "{" THEN GroupEnd(s, j + 1, 1)
  ELSE j + 1

\* the index behind the arguments of the command at i
AfterArgs(s, i, arity) ==
  IF arity = 1 THEN ArgEnd(s, i + 1) ELSE ArgEnd(s, ArgEnd(s, i + 1))

StartsGroup(s, j) == j <= Len(s) /\ s[j] = "{"

NoExtraGroup(s) ==
  \A i \in 1 .. Len(s) :
    /\ s[i] = "\\frac" => ~StartsGroup(s, AfterArgs(s, i, 2))
    /\ s[i] = "\\sqrt" => ~StartsGroup(s, AfterArgs(s, i, 1))

\* C14: after repairLatex no occurrence of \frac or of \sqrt in the output,
\* nested ones included, has a further '{' group right after its two
\* (\frac) or one (\sqrt) argument groups.
C14_ExtraGroupsDiscarded ==
  tk.pc = "repaired" => NoExtraGroup(tk.out)

\* how many argument groups (braced span or bare token) follow the command
\* at i, counted up to two
ArgsFollowing(s, i) ==
  LET a == ArgEnd(s, i + 1)
      b == ArgEnd(s, a)
  IN IF a = i + 1 THEN 0 ELSE IF b = a THEN 1 ELSE 2

Incomplete(s) ==
  \/ Len(s) = 0
  \/ Len(s) = 1 /\ s[1] \in NEEDS_ARGS
  \/ \E i \in 1 .. Len(s) :
       \/ s[i] = "\\frac" /\ ArgsFollowing(s, i) < 2
       \/ s[i] = "\\sqrt" /\ ArgsFollowing(s, i) < 1

\* C15: isCompleteExpression is false exactly for the empty array, for a
\* single arity-requiring command, and when some \frac is followed by fewer
\* than two or some \sqrt by fewer than one argument group, a group being a
\* balanced {...} span or a single bare token; it is true otherwise.
C15_FalseExactlyWhenIncomplete ==
  tk.pc = "checked" => (tk.ok = FALSE <=> Incomplete(tk.tokens))

\* balanced, every \frac with exactly two and every \sqrt with exactly one
\* argument group, and no '{' group right behind them
WellFormed(s) ==
  /\ Balanced(s)
  /\ \A i \in 1 .. Len(s) :
       /\ s[i] = "\\frac" => ArgsFollowing(s, i) = 2
       /\ s[i] = "\\sqrt" => ArgsFollowing(s, i) >= 1
  /\ NoExtraGroup(s)

\* C16: repairLatex returns a well-formed input unchanged.
C16_WellFormedUnchanged ==
  (tk.pc = "repaired" /\ WellFormed(tk.tokens)) => tk.out = tk.tokens

\* a well-formed array with \sqrt, \frac, a braced and a bare argument has
\* been repaired
C16_Witness ==
  /\ tk.pc = "repaired"
  /\ WellFormed(tk.tokens)
  /\ Len(tk.tokens) = 6
  /\ tk.tokens[1] = "\\sqrt"
  /\ tk.tokens[3] = "\\frac"
  /\ tk.tokens[4] = "{"
  /\ tk.tokens[6] = "x"
  /\ tk.out = tk.tokens

\* an id that stands for a symbol: in the table and not pad, sos or eos
IsWord(id) ==
  /\ id \in DOMAIN TestVocab.idx2word
  /\ id # TestVocab.special_tokens.pad
  /\ id # TestVocab.special_tokens.sos
  /\ id # TestVocab.special_tokens.eos

\* C18: decodeTokenIds keeps the order of the ids, skips pad, sos, eos and
\* every id absent from idx2word, and joins the symbols of the others with a
\* single space; it is the empty string when nothing remains.
C18_Decoded ==
  tk.pc = "decoded" =>
    LET kept == SelectSeq(tk.ids, IsWord)
    IN /\ Len(tk.out) = (IF kept = <<>> THEN 0 ELSE 2 * Len(kept) - 1)
       /\ \A k \in 1 .. Len(kept) : tk.out[2 * k - 1] = TestVocab.idx2word[kept[k]]
       /\ \A k \in 1 .. Len(kept) - 1 : tk.out[2 * k] = " "

\* pad, a symbol, an unknown id and another symbol have been decoded
C18_Witness ==
  /\ tk.pc = "decoded"
  /\ tk.ids = <<0, 3, MaxId, 5>>
  /\ tk.out = <<"x", " ", "y">>

\* decodeToTokenArray: decodeTokenIds before the join
decodeToTokenArray(ids, vocab) ==
  LET skip == {vocab.special_tokens.sos, vocab.special_tokens.eos,
               vocab.special_tokens.pad}
      words[n \in 0 .. Len(ids)] ==
        IF n = 0 THEN <<>>
        ELSE IF ids[n] \in skip THEN words[n - 1]
        ELSE IF ids[n] \in DOMAIN vocab.idx2word
          THEN Append(words[n - 1], vocab.idx2word[ids[n]])
        ELSE words[n - 1]
  IN words[Len(ids)]

\* a vocabulary with the symbols of the repair: the vocab argument of recognize
LatexVocab ==
  [idx2word |-> [i \in 0 .. 7 |->
                   <<"<pad>", "<sos>", "<eos>", "x", "{", "}", "\\frac",
                     "\\sqrt">>[i + 1]],
   special_tokens |-> [pad |-> 0, sos |-> SOS, eos |-> EOS],
   vocab_size |-> 8]

\* the most candidates a result holds
MaxCandidates == 3

\* ids of candidates: nothing, x, \frac alone, an unclosed group, \sqrt with
\* two groups
CandidateIds == {<<>>, <<3>>, <<6>>, <<4, 3>>, <<7, 4, 5, 4, 5>>}

CandidateLists == UNION {[1 .. n -> CandidateIds] : n \in 1 .. MaxCandidates}

\* the repaired string of a candidate
Repaired(ids) == repairLatex(decodeToTokenArray(ids, LatexVocab))

Latex(ids) == Join(Repaired(ids), " ")

\* mutant: an incomplete candidate is not skipped in auto mode
SelectFromNoSkip(candidates, i, mode, valid) ==
  LET Accepted(k) == Latex(candidates[k]) \in valid
      first == CHOOSE k \in i .. Len(candidates) :
                 Accepted(k) /\ \A j \in i .. k - 1 : ~Accepted(j)
  IN IF \E k \in i .. Len(candidates) : Accepted(k)
       THEN Latex(candidates[first])
     ELSE IF Latex(candidates[1]) \in valid THEN Latex(candidates[1])
     ELSE <<>>

\* the selection loop from candidate i on, then the fallback
RECURSIVE SelectFrom(_, _, _, _)
SelectFrom(candidates, i, mode, valid) ==
  IF i > Len(candidates)
    THEN IF Latex(candidates[1]) \in valid THEN Latex(candidates[1]) ELSE <<>>
  ELSE IF mode = "auto" /\ ~isCompleteExpression(Repaired(candidates[i]))
    THEN SelectFrom(candidates, i + 1, mode, valid)
  ELSE IF Latex(candidates[i]) \in valid
    THEN Latex(candidates[i])
  ELSE SelectFrom(candidates, i + 1, mode, valid)

\* The candidates of a result, best first, the mode of the request, and the
\* strings the external validation accepts.
SelInit ==
  /\ Quiet
  /\ tk = NoCall
  /\ sel \in {[NoSelection EXCEPT !.pc = "candidates", !.candidates = c,
                                  !.mode = m, !.valid = v] :
                c \in CandidateLists, m \in Modes,
                v \in SUBSET {Latex(ids) : ids \in CandidateIds}}
  /\ eng = NewEngine
  /\ oracle = NoOracle
  /\ More

\* recognize from the candidates on: the selection runs without an await
Select ==
  /\ sel.pc = "candidates"
  /\ sel' = [sel EXCEPT
               !.pc = "returned",
               !.latex = SelectFrom(sel.candidates, 1, sel.mode, sel.valid)]
  /\ UNCHANGED <<workerVars, pair, tk, eng, oracle, ld, voc, mc, pp, am, ui>>

SelNext == Select

SpecSel == SelInit /\ [][SelNext]_vars

\* candidate k passes: complete when the mode is auto, and validated
Passes(k) ==
  /\ sel.mode = "auto" => isCompleteExpression(Repaired(sel.candidates[k]))
  /\ Latex(sel.candidates[k]) \in sel.valid

\* C17: the selection returns the repaired string of the first candidate, best
\* first, that is complete (asked in auto mode only) and passes validation;
\* when there is none it returns the best candidate's repaired string if that
\* passes validation and the empty string otherwise, and it always returns.
C17_FirstValidOrEmpty ==
  sel.pc = "returned" =>
    /\ \A k \in 1 .. Len(sel.candidates) :
         (Passes(k) /\ \A j \in 1 .. k - 1 : ~Passes(j))
           => sel.latex = Latex(sel.candidates[k])
    /\ (\A k \in 1 .. Len(sel.candidates) : ~Passes(k))
         => sel.latex = (IF Latex(sel.candidates[1]) \in sel.valid
                           THEN Latex(sel.candidates[1]) ELSE <<>>)

\* auto mode, three candidates: the best is complete and not validated, the
\* second incomplete and validated, none passes, and the empty string is
\* returned
C17_Witness ==
  /\ sel.pc = "returned"
  /\ sel.mode = "auto"
  /\ Len(sel.candidates) = 3
  /\ isCompleteExpression(Repaired(sel.candidates[1]))
  /\ Latex(sel.candidates[1]) \notin sel.valid
  /\ ~isCompleteExpression(Repaired(sel.candidates[2]))
  /\ Latex(sel.candidates[2]) \in sel.valid
  /\ \A k \in 1 .. 3 : ~Passes(k)
  /\ sel.latex = <<>>

\* mutant: init() does not look at initPromise
initAnew(e, c, op) ==
  IF e.worker # 0
    THEN [e EXCEPT !.call[c] = [op |-> op,
                                pc |-> IF op = "init" THEN "returned" ELSE "awaitInit",
                                on |-> 0, to |-> 0, ready |-> FALSE],
                   !.clean = FALSE]
  ELSE LET p == Len(e.workers) + 1
       IN [e EXCEPT !.workers = Append(@, [state |-> "loading", terminated |-> FALSE]),
                    !.promise = Append(@, "pending"),
                    !.initPromise = p,
                    !.call[c] = [op |-> op, pc |-> "awaitInit", on |-> p,
                                 to |-> 0, ready |-> FALSE],
                    !.clean = FALSE]

\* init() up to its await, called by init or as the first line of recognize:
\* return when the worker is there, wait on initPromise when there is one,
\* else start _init, which creates the worker and posts init before its await
init(e, c, op) ==
  IF e.worker # 0
    THEN [e EXCEPT !.call[c] = [op |-> op,
                                pc |-> IF op = "init" THEN "returned" ELSE "awaitInit",
                                on |-> 0, to |-> 0, ready |-> FALSE],
                   !.clean = FALSE]
  ELSE IF e.initPromise # 0
    THEN [e EXCEPT !.call[c] = [op |-> op, pc |-> "awaitInit",
                                on |-> e.initPromise, to |-> 0,
                                ready |-> FALSE],
                   !.clean = FALSE]
  ELSE LET p == Len(e.workers) + 1
       IN [e EXCEPT !.workers = Append(@, [state |-> "loading", terminated |-> FALSE]),
                    !.promise = Append(@, "pending"),
                    !.initPromise = p,
                    !.call[c] = [op |-> op, pc |-> "awaitInit", on |-> p,
                                 to |-> 0, ready |-> FALSE],
                    !.clean = FALSE]

\* a call that would create a worker is taken while the bound allows one
MayCall(c) ==
  /\ eng.call[c].pc \in {"idle", "returned", "rejected"}
  /\ (eng.worker = 0 /\ eng.initPromise = 0) => Len(eng.workers) < MaxWorkers

CallInit(c) ==
  /\ MayCall(c)
  /\ eng' = init(eng, c, "init")
  /\ UNCHANGED <<workerVars, pair, tk, sel, oracle, ld, voc, mc, pp, am, ui>>

CallRecognize(c) ==
  /\ MayCall(c)
  /\ eng' = init(eng, c, "recognize")
  /\ UNCHANGED <<workerVars, pair, tk, sel, oracle, ld, voc, mc, pp, am, ui>>

\* init-done from worker p: the rest of _init assigns this.worker and the
\* promise of _init resolves
InitDoneOf(e, p) ==
  [e EXCEPT !.workers[p].state = "ready", !.promise[p] = "resolved",
            !.worker = p]

InitDone(p) ==
  /\ p \in 1 .. Len(eng.workers)
  /\ eng.workers[p].state = "loading"
  /\ ~eng.workers[p].terminated
  /\ eng' = InitDoneOf(eng, p)
  /\ UNCHANGED <<workerVars, pair, tk, sel, oracle, ld, voc, mc, pp, am, ui>>

\* init-error or an error event from worker p: the promise of _init rejects
InitError(p) ==
  /\ p \in 1 .. Len(eng.workers)
  /\ eng.workers[p].state = "loading"
  /\ ~eng.workers[p].terminated
  /\ eng' = [eng EXCEPT !.workers[p].state = "failed", !.promise[p] = "rejected"]
  /\ UNCHANGED <<workerVars, pair, tk, sel, oracle, ld, voc, mc, pp, am, ui>>

\* the caller goes on behind its await of init(): init returns or rejects,
\* recognize posts its request to this.worker, which throws when it is null
Resume(c) ==
  LET k == eng.call[c]
      settled_ == IF k.on = 0 THEN "resolved" ELSE eng.promise[k.on]
  IN /\ k.pc = "awaitInit"
     /\ settled_ # "pending"
     /\ eng' = [eng EXCEPT !.call[c] =
                  IF settled_ = "rejected" THEN [k EXCEPT !.pc = "rejected"]
                  ELSE IF k.op = "init" THEN [k EXCEPT !.pc = "returned"]
                  ELSE IF eng.worker = 0 THEN [k EXCEPT !.pc = "rejected"]
                  ELSE [k EXCEPT !.pc = "posted", !.to = eng.worker,
                                 !.ready = (eng.workers[eng.worker].state = "ready")]]
     /\ UNCHANGED <<workerVars, pair, tk, sel, oracle, ld, voc, mc, pp, am, ui>>

\* recognize-done or recognize-error for the request of caller c
Reply(c) ==
  /\ eng.call[c].pc = "posted"
  /\ ~eng.workers[eng.call[c].to].terminated
  /\ eng' = [eng EXCEPT !.call[c].pc = "returned"]
  /\ UNCHANGED <<workerVars, pair, tk, sel, oracle, ld, voc, mc, pp, am, ui>>

\* dispose(): terminate this.worker if there is one, null worker and
\* initPromise, reject what is pending
Dispose ==
  /\ eng' = [eng EXCEPT
               !.workers = [p \in DOMAIN @ |->
                              IF p = eng.worker THEN [@[p] EXCEPT !.terminated = TRUE]
                              ELSE @[p]],
               !.worker = 0,
               !.initPromise = 0,
               !.call = [c \in Callers |->
                           IF @[c].pc = "posted" THEN [@[c] EXCEPT !.pc = "rejected"]
                           ELSE @[c]],
               !.clean = TRUE,
               !.disposed = TRUE]
  /\ UNCHANGED <<workerVars, pair, tk, sel, oracle, ld, voc, mc, pp, am, ui>>

LifeInit ==
  /\ Quiet
  /\ tk = NoCall
  /\ sel = NoSelection
  /\ eng = NewEngine
  /\ oracle = NoOracle
  /\ More

LifeNext ==
  \/ \E c \in Callers : CallInit(c)
  \/ \E c \in Callers : CallRecognize(c)
  \/ \E p \in 1 .. MaxWorkers : InitDone(p)
  \/ \E p \in 1 .. MaxWorkers : InitError(p)
  \/ \E c \in Callers : Resume(c)
  \/ \E c \in Callers : Reply(c)
  \/ Dispose

SpecLife == LifeInit /\ [][LifeNext]_vars

\* C19: from a dispose() until the next init() or recognize() the engine
\* holds no worker: worker and initPromise are null, whatever was in flight
\* when dispose() was called.
C19_DisposedHoldsNothing ==
  eng.clean => (eng.worker = 0 /\ eng.initPromise = 0)

\* C20: as long as dispose() has not been called, any number of init() and
\* recognize() calls, repeated or concurrent, create at most one worker, and
\* every request recognize has posted went to a worker that had answered
\* init-done.
C20_CreatedOnce ==
  ~eng.disposed =>
    /\ Len(eng.workers) <= 1
    /\ \A c \in Callers :
         (eng.call[c].op = "recognize" /\ eng.call[c].pc \in {"posted", "returned"})
           => (eng.call[c].ready /\ eng.call[c].to = 1)

\* no dispose(): an init() and a recognize() have waited for the same _init,
\* init() has returned and recognize has posted its request, with one worker
\* created
C20_Witness ==
  /\ ~eng.disposed
  /\ Len(eng.workers) = 1
  /\ \E c \in Callers :
       eng.call[c].op = "init" /\ eng.call[c].pc = "returned" /\ eng.call[c].on = 1
  /\ \E c \in Callers :
       /\ eng.call[c].op = "recognize" /\ eng.call[c].pc = "posted"
       /\ eng.call[c].on = 1 /\ eng.call[c].to = 1

\* ------------------------------------------- handleInit, _loadSessions
\* the two initializations: handleInit of the worker, _loadSessions of the
\* engine that runs the sessions itself
Handlers == {"worker", "engine"}

Providers == {"wasm", "webgpu"}

Which == {"enc", "dec"}

Outcomes == {"ok", "fail"}

\* Promise.all([create(encBuf, opts), create(decBuf, opts)]) is called
Attempt(l, provider) ==
  [l EXCEPT !.pc = "create",
            !.providers = Append(@, provider),
            !.tries = Append(@, [enc |-> "pending", dec |-> "pending"])]

\* initialization fails: init-error from the worker, a rejected init()
Fails(l) ==
  [l EXCEPT !.pc = "failed",
            !.msg = IF l.handler = "worker" THEN "init-error" ELSE "rejected"]

\* mutant: every failed creation is followed by another one with wasm
CatchCreateAgain(l) == Attempt(l, "wasm")

\* a rejected Promise.all of the creations: the catch of the first one tries
\* wasm (the engine only when wasm was not the provider asked for), a
\* rejection inside that catch leaves the function
CatchCreate(l) ==
  IF Len(l.providers) = 1 /\ (l.handler = "worker" \/ l.ep # "wasm")
    THEN Attempt(l, "wasm")
  ELSE Fails(l)

\* the init message arrives / _loadSessions is called: both models are fetched
HandleInit(h, ep) ==
  /\ ld.pc = "none"
  /\ ld' = [ld EXCEPT !.pc = "fetch", !.handler = h, !.ep = ep,
                      !.fetch = [enc |-> "pending", dec |-> "pending"]]
  /\ UNCHANGED <<coreVars, voc, mc, pp, am, ui>>

\* one of the two model fetches settles; Promise.all rejects with the first
\* failure and resolves when both are there, and the creation begins
FetchSettles(x, r) ==
  /\ ld.fetch[x] = "pending"
  /\ LET l == [ld EXCEPT !.fetch[x] = r]
     IN ld' = IF ld.pc # "fetch" THEN l
              ELSE IF r = "fail" THEN Fails(l)
              ELSE IF \A y \in Which : l.fetch[y] = "ok" THEN Attempt(l, l.ep)
              ELSE l
  /\ UNCHANGED <<coreVars, voc, mc, pp, am, ui>>

\* one InferenceSession.create of attempt n settles; a settlement of an
\* attempt that was given up changes nothing in the handler
CreateSettles(n, x, r) ==
  /\ n \in 1 .. Len(ld.tries)
  /\ ld.tries[n][x] = "pending"
  /\ LET l == [ld EXCEPT !.tries[n][x] = r]
     IN ld' = IF ld.pc # "create" \/ n # Len(ld.tries) THEN l
              ELSE IF r = "fail" THEN CatchCreate(l)
              ELSE IF \A y \in Which : l.tries[n][y] = "ok"
                THEN [l EXCEPT !.pc = "done", !.sessions = TRUE,
                               !.msg = IF l.handler = "worker" THEN "init-done"
                                       ELSE "resolved"]
              ELSE l
  /\ UNCHANGED <<coreVars, voc, mc, pp, am, ui>>

\* the most attempts the model follows
MaxTries == 3

LoadInit == Quiet /\ Rest

LoadNext ==
  \/ \E h \in Handlers, ep \in Providers : HandleInit(h, ep)
  \/ \E x \in Which, r \in Outcomes : FetchSettles(x, r)
  \/ \E n \in 1 .. MaxTries, x \in Which, r \in Outcomes : CreateSettles(n, x, r)

SpecLoad == LoadInit /\ [][LoadNext]_vars

\* attempt n was rejected
Rejected(n) == \E x \in Which : ld.tries[n][x] = "fail"

\* C21: session creation is attempted at most twice per initialization, first
\* with the provider asked for and, only after that attempt failed, once more
\* with wasm; when the last attempt made has failed the initialization has
\* failed, and it has succeeded only with both sessions of the last attempt.
C21_AtMostTwoAttempts ==
  LET n == Len(ld.providers)
  IN /\ n <= 2
     /\ n >= 1 => ld.providers[1] = ld.ep
     /\ n = 2 => (ld.providers[2] = "wasm" /\ Rejected(1))
     /\ (n >= 1 /\ Rejected(n)) <=> (ld.pc = "failed" /\ n >= 1)
     /\ ld.pc = "done" => (n >= 1 /\ \A x \in Which : ld.tries[n][x] = "ok")

\* the first attempt with webgpu and the second with wasm have both failed,
\* and the initialization has failed
C21_Witness ==
  /\ ld.providers = <<"webgpu", "wasm">>
  /\ Rejected(1)
  /\ Rejected(2)
  /\ ld.pc = "failed"

\* -------------------------------------------------------- loadVocab
\* the most fetches of the vocabulary the model follows
MaxFetches == 3

\* loadVocab up to its first await: the cached object is returned when there
\* is one (0 is null), else the url is fetched
LoadVocab(c) ==
  /\ voc.call[c].pc \in {"idle", "returned", "failed"}
  /\ voc.cachedVocab = 0 => voc.fetches < MaxFetches
  /\ voc' = IF voc.cachedVocab # 0
              THEN [voc EXCEPT !.call[c] = [pc |-> "returned", ret |-> voc.cachedVocab]]
            ELSE [voc EXCEPT !.call[c] = [pc |-> "fetch", ret |-> 0],
                             !.fetches = @ + 1]
  /\ UNCHANGED <<coreVars, ld, mc, pp, am, ui>>

\* fetch(url) resolves: res.json() is awaited
VocabFetched(c) ==
  /\ voc.call[c].pc = "fetch"
  /\ voc' = [voc EXCEPT !.call[c].pc = "json"]
  /\ UNCHANGED <<coreVars, ld, mc, pp, am, ui>>

\* res.json() resolves with a new object, which is cached and returned
VocabParsed(c) ==
  /\ voc.call[c].pc = "json"
  /\ voc' = [voc EXCEPT !.objects = @ + 1,
                        !.cachedVocab = voc.objects + 1,
                        !.call[c] = [pc |-> "returned", ret |-> voc.objects + 1]]
  /\ UNCHANGED <<coreVars, ld, mc, pp, am, ui>>

\* fetch or res.json() rejects: loadVocab rejects, nothing is cached
VocabFails(c) ==
  /\ voc.call[c].pc \in {"fetch", "json"}
  /\ voc' = [voc EXCEPT !.call[c] = [pc |-> "failed", ret |-> 0]]
  /\ UNCHANGED <<coreVars, ld, mc, pp, am, ui>>

VocabInit == Quiet /\ Rest

VocabNext ==
  \/ \E c \in VocabCallers : LoadVocab(c)
  \/ \E c \in VocabCallers : VocabFetched(c)
  \/ \E c \in VocabCallers : VocabParsed(c)
  \/ \E c \in VocabCallers : VocabFails(c)

SpecVocab == VocabInit /\ [][VocabNext]_vars

\* C22: for any number and interleaving of loadVocab calls the vocabulary is
\* fetched at most once and every call that has returned has returned the
\* same object.
C22_LoadedOnce ==
  /\ voc.fetches <= 1
  /\ \A c, d \in VocabCallers :
       (voc.call[c].pc = "returned" /\ voc.call[d].pc = "returned")
         => voc.call[c].ret = voc.call[d].ret

\* ----------------------------------------- fetchWithCache, fetchModel
\* the two functions that fetch a model through the IndexedDB cache:
\* fetchWithCache of the model cache module, fetchModel of the worker
FetchFns == {"fetchWithCache", "fetchModel"}

\* the bytes the server has for the url
ModelBytes == 7

\* the most calls for one url the model follows
MaxLoads == 4

\* the call resolves with b
Resolves(m, b) == [m EXCEPT !.pc = "none", !.settled = "resolved", !.result = b]

Rejects(m) == [m EXCEPT !.pc = "none", !.settled = "rejected", !.result = 0]

\* the get request fails: fetchModel awaits it inside its try and goes to
\* the catch; getCachedModel returns the promise of the request without
\* awaiting it, so its catch does not see the rejection and the call rejects
ReadFails(m) ==
  IF m.fn = "fetchModel" THEN [m EXCEPT !.pc = "refetch", !.cacheFailed = TRUE]
  ELSE Rejects([m EXCEPT !.cacheFailed = TRUE])

\* the put request fails: the same in cacheModel
WriteFails(m) ==
  IF m.fn = "fetchModel" THEN [m EXCEPT !.pc = "refetch", !.cacheFailed = TRUE]
  ELSE Rejects([m EXCEPT !.cacheFailed = TRUE])

\* the function is called: it opens the database
FetchThroughCache(fn) ==
  /\ mc.pc = "none"
  /\ mc.calls < MaxLoads
  /\ mc' = [mc EXCEPT !.pc = "open", !.fn = fn, !.settled = "none",
                      !.result = 0, !.buf = 0, !.netFailed = FALSE,
                      !.cacheFailed = FALSE, !.calls = @ + 1]
  /\ UNCHANGED <<coreVars, ld, voc, pp, am, ui>>

\* indexedDB.open succeeds, or fails (also when there is no indexedDB):
\* getCachedModel then returns null, fetchModel goes to its catch
OpenSettles(r) ==
  /\ mc.pc = "open"
  /\ mc' = IF r = "ok" THEN [mc EXCEPT !.pc = "read"]
           ELSE [mc EXCEPT !.cacheFailed = TRUE,
                           !.pc = IF mc.fn = "fetchModel" THEN "refetch" ELSE "fetch"]
  /\ UNCHANGED <<coreVars, ld, voc, pp, am, ui>>

\* the get request succeeds with what the store has for the url
ReadDone ==
  /\ mc.pc = "read"
  /\ mc' = IF mc.store # 0 THEN Resolves(mc, mc.store) ELSE [mc EXCEPT !.pc = "fetch"]
  /\ UNCHANGED <<coreVars, ld, voc, pp, am, ui>>

ReadError ==
  /\ mc.pc = "read"
  /\ mc' = ReadFails(mc)
  /\ UNCHANGED <<coreVars, ld, voc, pp, am, ui>>

\* fetch(url) and arrayBuffer() settle; with the bytes fetchWithCache opens
\* the database again in cacheModel, fetchModel puts them with the one it has;
\* in the catch of fetchModel the fetched bytes are returned
NetSettles(r) ==
  /\ mc.pc \in {"fetch", "refetch"}
  /\ mc' = IF r = "fail"
             THEN IF mc.pc = "fetch" /\ mc.fn = "fetchModel"
                    THEN [mc EXCEPT !.pc = "refetch", !.netFailed = TRUE]
                  ELSE Rejects([mc EXCEPT !.netFailed = TRUE])
           ELSE IF mc.pc = "refetch" THEN Resolves(mc, ModelBytes)
           ELSE [mc EXCEPT !.buf = ModelBytes,
                           !.pc = IF mc.fn = "fetchModel" THEN "write" ELSE "reopen"]
  /\ UNCHANGED <<coreVars, ld, voc, pp, am, ui>>

\* cacheModel: indexedDB.open settles; a failure is caught and buf returned
ReopenSettles(r) ==
  /\ mc.pc = "reopen"
  /\ mc' = IF r = "ok" THEN [mc EXCEPT !.pc = "write"]
           ELSE Resolves([mc EXCEPT !.cacheFailed = TRUE], mc.buf)
  /\ UNCHANGED <<coreVars, ld, voc, pp, am, ui>>

\* the put request succeeds: the store has the bytes, buf is returned
WriteDone ==
  /\ mc.pc = "write"
  /\ mc' = Resolves([mc EXCEPT !.store = mc.buf], mc.buf)
  /\ UNCHANGED <<coreVars, ld, voc, pp, am, ui>>

WriteError ==
  /\ mc.pc = "write"
  /\ mc' = WriteFails(mc)
  /\ UNCHANGED <<coreVars, ld, voc, pp, am, ui>>

CacheInit == Quiet /\ Rest

CacheNext ==
  \/ \E fn \in FetchFns : FetchThroughCache(fn)
  \/ \E r \in Outcomes : OpenSettles(r)
  \/ ReadDone
  \/ ReadError
  \/ \E r \in Outcomes : NetSettles(r)
  \/ \E r \in Outcomes : ReopenSettles(r)
  \/ WriteDone
  \/ WriteError

SpecCache == CacheInit /\ [][CacheNext]_vars

\* C23: whenever no network fetch of the call has failed, a settled call has
\* resolved with exactly the bytes of the url, whether the database failed to
\* open, the read failed or the write failed.
C23_CacheOnlyOptimizes ==
  (mc.settled # "none" /\ ~mc.netFailed) =>
    (mc.settled = "resolved" /\ mc.result = ModelBytes)

\* ---------------------------------------------------- preprocessing.ts
MODEL_H == 256
MAX_W == 1024
MIN_W == 128
W_ALIGN == 64
TARGET_H == 128
PAD == 16

\* the largest bitmap given to scaleToFit; below 256 by 2048 no product
\* width * scale or height * scale lies halfway between two integers, so the
\* rounding of the exact value is the rounding of the floating-point one
MaxBitmapW == 100
MaxBitmapH == 12

Max(a, b) == IF a >= b THEN a ELSE b

Min(a, b) == IF a <= b THEN a ELSE b

\* Math.round(n / d) for n >= 0, d > 0: halves go up
RoundDiv(n, d) == (2 * n + d) \div (2 * d)

\* Math.ceil(n / d) for n >= 0, d > 0
CeilDiv(n, d) == (n + d - 1) \div d

\* mutant: the width is aligned downwards
scaleToFitFloor(src) ==
  LET byHeight == TARGET_H * src.width <= MAX_W * src.height
      dw == Max(1, IF byHeight THEN RoundDiv(src.width * TARGET_H, src.height)
                   ELSE RoundDiv(src.width * MAX_W, src.width))
      dh == Max(1, IF byHeight THEN RoundDiv(src.height * TARGET_H, src.height)
                   ELSE RoundDiv(src.height * MAX_W, src.width))
      canvasW == Min(MAX_W, Max(MIN_W, ((dw + PAD) \div W_ALIGN) * W_ALIGN))
  IN [contentH |-> dh, contentW |-> dw, canvasW |-> canvasW,
      canvas |-> [width |-> canvasW, height |-> MODEL_H]]

\* scaleToFit: scale = min(TARGET_H / height, MAX_W / width) is the first of
\* the two when TARGET_H * width <= MAX_W * height
scaleToFit(src) ==
  LET byHeight == TARGET_H * src.width <= MAX_W * src.height
      dw == Max(1, IF byHeight THEN RoundDiv(src.width * TARGET_H, src.height)
                   ELSE RoundDiv(src.width * MAX_W, src.width))
      dh == Max(1, IF byHeight THEN RoundDiv(src.height * TARGET_H, src.height)
                   ELSE RoundDiv(src.height * MAX_W, src.width))
      canvasW == Min(MAX_W, Max(MIN_W, CeilDiv(dw + PAD, W_ALIGN) * W_ALIGN))
  IN [contentH |-> dh, contentW |-> dw, canvasW |-> canvasW,
      canvas |-> [width |-> canvasW, height |-> MODEL_H]]

\* ------------------------------------------- resamplePoints (part_003)
Abs(a) == IF a < 0 THEN -a ELSE a

\* Math.sqrt(dx * dx + dy * dy) of a horizontal or vertical segment, the only
\* segments the inputs below contain: its length is a whole number
Dist(p, q) == IF q.x = p.x THEN Abs(q.y - p.y) ELSE Abs(q.x - p.x)

Aligned(pts) ==
  \A i \in 1..(Len(pts) - 1) : pts[i].x = pts[i + 1].x \/ pts[i].y = pts[i + 1].y

\* the points the while loop pushes on one segment: covered runs from
\* remaining in steps of interval as long as covered <= dist
Pushed(prev, curr, remaining, interval) ==
  LET dist == Dist(prev, curr)
      n == (dist - remaining) \div interval
  IN [j \in 1..(n + 1) |->
        LET covered == remaining + (j - 1) * interval
        IN [x |-> prev.x + ((curr.x - prev.x) * covered) \div dist,
            y |-> prev.y + ((curr.y - prev.y) * covered) \div dist]]

\* the for loop from index i on (points[i] is the code's points[i - 1])
RECURSIVE ResampleFrom(_, _, _, _, _)
ResampleFrom(points, i, resampled, remaining, interval) ==
  IF i >= Len(points) THEN resampled
  ELSE LET dist == Dist(points[i], points[i + 1])
       IN IF dist <= remaining
          THEN ResampleFrom(points, i + 1, resampled, remaining - dist, interval)
          ELSE LET n == (dist - remaining) \div interval
                   covered == remaining + (n + 1) * interval
               IN ResampleFrom(points, i + 1,
                    resampled \o Pushed(points[i], points[i + 1], remaining, interval),
                    covered - dist, interval)

\* mutant: the last point is not pushed
resamplePointsNoLast(points, interval) ==
  IF Len(points) < 2 THEN [points |-> points, resampled |-> points]
  ELSE [points |-> points,
        resampled |-> ResampleFrom(points, 1, <<points[1]>>, interval, interval)]

\* resamplePoints: the array it returns and the array it was given, as it is
\* when the function returns
resamplePoints(points, interval) ==
  IF Len(points) < 2 THEN [points |-> points, resampled |-> points]
  ELSE [points |-> points,
        resampled |->
          Append(ResampleFrom(points, 1, <<points[1]>>, interval, interval),
                 points[Len(points)])]

\* ---------------------------------- computeBBox, renderStrokes, isStrokeMeaningful
MIN_STROKE_SIZE == 8
MIN_TOTAL_POINTS == 6
MIN_PATH_LENGTH == 15

\* the interval renderStrokes resamples with (the default of resamplePoints)
DEFAULT_INTERVAL == 3

\* the points of all strokes in the order the two nested loops visit them
RECURSIVE PointsOf(_, _)
PointsOf(strokes, k) ==
  IF k > Len(strokes) THEN <<>>
  ELSE strokes[k].points \o PointsOf(strokes, k + 1)

\* the loops of computeBBox from point i on; any is FALSE as long as minX and
\* minY are Infinity and maxX and maxY are -Infinity
RECURSIVE BBoxFrom(_, _, _)
BBoxFrom(pts, i, b) ==
  IF i > Len(pts) THEN b
  ELSE LET p == pts[i]
       IN BBoxFrom(pts, i + 1,
            [any |-> TRUE,
             minX |-> IF ~b.any \/ p.x < b.minX THEN p.x ELSE b.minX,
             minY |-> IF ~b.any \/ p.y < b.minY THEN p.y ELSE b.minY,
             maxX |-> IF ~b.any \/ p.x > b.maxX THEN p.x ELSE b.maxX,
             maxY |-> IF ~b.any \/ p.y > b.maxY THEN p.y ELSE b.maxY])

computeBBox(strokes) ==
  BBoxFrom(PointsOf(strokes, 1), 1,
           [any |-> FALSE, minX |-> 0, minY |-> 0, maxX |-> 0, maxY |-> 0])

\* the inner loop of isStrokeMeaningful over one stroke, from index i on
RECURSIVE PathLength(_, _)
PathLength(points, i) ==
  IF i >= Len(points) THEN 0
  ELSE Dist(points[i], points[i + 1]) + PathLength(points, i + 1)

\* the outer loop of isStrokeMeaningful from stroke k on
RECURSIVE Totals(_, _)
Totals(strokes, k) ==
  IF k > Len(strokes) THEN [totalPoints |-> 0, totalLength |-> 0]
  ELSE LET t == Totals(strokes, k + 1)
       IN [totalPoints |-> Len(strokes[k].points) + t.totalPoints,
           totalLength |-> PathLength(strokes[k].points, 1) + t.totalLength]

\* mutant: rejected when either side of the bounding box is below the minimum
isStrokeMeaningfulEither(strokes) ==
  LET bbox == computeBBox(strokes)
      t == Totals(strokes, 1)
  IN IF Len(strokes) = 0 THEN FALSE
     ELSE IF ~bbox.any
            \/ bbox.maxX - bbox.minX < MIN_STROKE_SIZE
            \/ bbox.maxY - bbox.minY < MIN_STROKE_SIZE THEN FALSE
     ELSE t.totalPoints >= MIN_TOTAL_POINTS /\ t.totalLength >= MIN_PATH_LENGTH

\* isStrokeMeaningful; without a point w and h are -Infinity
isStrokeMeaningful(strokes) ==
  LET bbox == computeBBox(strokes)
      t == Totals(strokes, 1)
  IN IF Len(strokes) = 0 THEN FALSE
     ELSE IF ~bbox.any
            \/ (bbox.maxX - bbox.minX < MIN_STROKE_SIZE
                /\ bbox.maxY - bbox.minY < MIN_STROKE_SIZE) THEN FALSE
     ELSE t.totalPoints >= MIN_TOTAL_POINTS /\ t.totalLength >= MIN_PATH_LENGTH

\* mutant: a stroke keeps the resampled points
renderStrokesKeepsResampled(strokes) ==
  LET bbox == computeBBox(strokes)
      rawW == IF bbox.any THEN Max(1, bbox.maxX - bbox.minX) ELSE 1
      rawH == IF bbox.any THEN Max(1, bbox.maxY - bbox.minY) ELSE 1
  IN [strokes |->
        [k \in 1..Len(strokes) |->
           IF Len(strokes[k].points) = 0 THEN strokes[k]
           ELSE [strokes[k] EXCEPT
                   !.points = resamplePoints(@, DEFAULT_INTERVAL).resampled]],
      canvas |-> [width |-> rawW + PAD * 2, height |-> rawH + PAD * 2]]

\* renderStrokes: the size of the canvas it draws on, and the strokes as they
\* are when it returns; Math.max(1, Math.ceil(-Infinity)) is 1
renderStrokes(strokes) ==
  LET bbox == computeBBox(strokes)
      rawW == IF bbox.any THEN Max(1, bbox.maxX - bbox.minX) ELSE 1
      rawH == IF bbox.any THEN Max(1, bbox.maxY - bbox.minY) ELSE 1
  IN [strokes |->
        [k \in 1..Len(strokes) |->
           IF Len(strokes[k].points) = 0 THEN strokes[k]
           ELSE [strokes[k] EXCEPT
                   !.points = resamplePoints(@, DEFAULT_INTERVAL).points]],
      canvas |-> [width |-> rawW + PAD * 2, height |-> rawH + PAD * 2]]

\* mutant: the mask is written column by column
maskColumnMajor(canvasW, contentH, contentW) ==
  [i \in 0..(MODEL_H * canvasW - 1) |->
     LET y == i % MODEL_H
         x == i \div MODEL_H
     IN IF y < contentH /\ x < contentW THEN 0 ELSE 1]

\* the mask after the two loops of preprocessStrokes: entry y * canvasW + x
\* is written once, for y < MODEL_H and x < canvasW
mask(canvasW, contentH, contentW) ==
  [i \in 0..(MODEL_H * canvasW - 1) |->
     LET y == i \div canvasW
         x == i % canvasW
     IN IF y < contentH /\ x < contentW THEN 0 ELSE 1]

\* preprocessStrokes: the result without the tensor and the mask, which
\* mask(width, contentH, contentW) gives, and the strokes as they are when
\* it returns
preprocessStrokes(strokes) ==
  LET r == renderStrokes(strokes)
      f == scaleToFit(r.canvas)
  IN [strokes |-> r.strokes,
      result |-> [height |-> MODEL_H, width |-> f.canvasW,
                  maskHeight |-> MODEL_H, maskWidth |-> f.canvasW,
                  contentH |-> f.contentH, contentW |-> f.contentW]]

\* ------------------------------------------------ calls of preprocessing
\* bounds of the inputs
MaxPolyline == 4
MaxInterval == 10
MaxPoints == 6
MaxStrokes == 2
MaxCoord == 300

Intervals == {1, 4, MaxInterval}

\* points of short strokes, around the minimum size of a meaningful stroke
GesturePoints ==
  {[x |-> 0, y |-> 0], [x |-> 8, y |-> 0], [x |-> 0, y |-> 8], [x |-> 7, y |-> 8]}

\* points of polylines with segments of length 0, 1, 7 and 8
LinePoints ==
  {[x |-> 0, y |-> 0], [x |-> 7, y |-> 0], [x |-> 8, y |-> 0], [x |-> 0, y |-> 8]}

\* strokes of drawings: without a point, a dot, a wide line and a tall line
DrawingStrokes ==
  {[points |-> <<>>, lineWidth |-> 1],
   [points |-> <<[x |-> 0, y |-> 0]>>, lineWidth |-> 1],
   [points |-> <<[x |-> 0, y |-> 0], [x |-> MaxCoord, y |-> 0]>>, lineWidth |-> 3],
   [points |-> <<[x |-> 0, y |-> 0], [x |-> 0, y |-> 100]>>, lineWidth |-> 2]}

\* the stroke list that holds the points pts in order, cut into Len(cuts) + 1
\* strokes after the cuts[k]-th point
StrokesOf(pts, cuts) ==
  [k \in 1..(Len(cuts) + 1) |->
     [points |-> SubSeq(pts, (IF k = 1 THEN 0 ELSE cuts[k - 1]) + 1,
                             IF k > Len(cuts) THEN Len(pts) ELSE cuts[k]),
      lineWidth |-> 2]]

Call(fn) == [NoInput EXCEPT !.pc = "call", !.fn = fn]

StrokeCall(fn, strokes) == [Call(fn) EXCEPT !.strokes = strokes, !.given = strokes]

\* a caller about to call fn on the empty list, or on a list of at most
\* MaxStrokes strokes with at most maxTotal points of P in all; a stroke has
\* a point unless it is the only stroke
StrokeCalls(fn, P, maxTotal) ==
  \/ pp = StrokeCall(fn, <<>>)
  \/ \E n \in 0..maxTotal : \E pts \in [1..n -> P] :
       \E ns \in 1..MaxStrokes : \E cuts \in [1..(ns - 1) -> 1..(n - 1)] :
          /\ \A k \in 1..(ns - 2) : cuts[k] < cuts[k + 1]
          /\ \A k \in 1..ns : Aligned(StrokesOf(pts, cuts)[k].points)
          /\ pp = StrokeCall(fn, StrokesOf(pts, cuts))

PreInit ==
  /\ Quiet
  /\ tk = NoCall
  /\ sel = NoSelection
  /\ eng = NewEngine
  /\ oracle = NoOracle
  /\ ld = NoLoad
  /\ voc = NoVocab
  /\ mc = NoFetch
  /\ am = NoMasking
  /\ ui = NoApp
  /\ \/ \E bw \in 1..MaxBitmapW, bh \in 1..MaxBitmapH :
          pp = [Call("scaleToFit") EXCEPT !.bitmap = [width |-> bw, height |-> bh]]
     \/ \E n \in 0..MaxPolyline : \E pts \in [1..n -> LinePoints] :
          \E d \in Intervals :
             /\ Aligned(pts)
             /\ pp = [Call("resamplePoints") EXCEPT
                        !.points = pts, !.given = pts, !.interval = d]
     \/ StrokeCalls("isStrokeMeaningful", GesturePoints, MaxPoints)
     \/ \E n \in 0..MaxStrokes : \E strokes \in [1..n -> DrawingStrokes] :
          pp = StrokeCall("preprocessStrokes", strokes)

ScaleToFit ==
  /\ pp.pc = "call"
  /\ pp.fn = "scaleToFit"
  /\ pp' = [pp EXCEPT !.pc = "done", !.out = scaleToFit(pp.bitmap)]
  /\ UNCHANGED <<coreVars, ld, voc, mc, am, ui>>

ResamplePoints ==
  /\ pp.pc = "call"
  /\ pp.fn = "resamplePoints"
  /\ LET r == resamplePoints(pp.points, pp.interval)
     IN pp' = [pp EXCEPT !.pc = "done", !.points = r.points, !.out = r.resampled]
  /\ UNCHANGED <<coreVars, ld, voc, mc, am, ui>>

IsStrokeMeaningful ==
  /\ pp.pc = "call"
  /\ pp.fn = "isStrokeMeaningful"
  /\ pp' = [pp EXCEPT !.pc = "done", !.out = isStrokeMeaningful(pp.strokes)]
  /\ UNCHANGED <<coreVars, ld, voc, mc, am, ui>>

PreprocessStrokes ==
  /\ pp.pc = "call"
  /\ pp.fn = "preprocessStrokes"
  /\ LET r == preprocessStrokes(pp.strokes)
     IN pp' = [pp EXCEPT !.pc = "done", !.strokes = r.strokes, !.out = r.result]
  /\ UNCHANGED <<coreVars, ld, voc, mc, am, ui>>

PreNext ==
  \/ ScaleToFit
  \/ ResamplePoints
  \/ IsStrokeMeaningful
  \/ PreprocessStrokes

SpecPre == PreInit /\ [][PreNext]_vars

Returned(fn) == pp.pc = "done" /\ pp.fn = fn

\* C24: the result of scaling a bitmap has height 256 and a width that is a
\* multiple of 64 between 128 and 1024, the least such multiple that is at
\* least the scaled content width plus 16 when that lies in the range, where
\* the scaled content width is the bitmap width times
\* min(128 / height, 1024 / width), rounded, and at least 1.
C24_WidthAlignedAndClamped ==
  Returned("scaleToFit") =>
    LET bw == pp.bitmap.width
        bh == pp.bitmap.height
        \* bw * min(128 / bh, 1024 / bw) is within 1/2 of c
        Scaled(c) == \/ 128 * bw <= 1024 * bh /\ 2 * bh * c - bh <= 2 * 128 * bw
                                              /\ 2 * 128 * bw < 2 * bh * c + bh
                     \/ 128 * bw > 1024 * bh /\ c = 1024
        cw == pp.out.contentW
        RoundUp == CHOOSE m \in 0..(2 * 1024) :
                     m % 64 = 0 /\ m >= cw + 16 /\ m - 64 < cw + 16
    IN /\ pp.out.canvas.height = 256
       /\ pp.out.canvas.width = pp.out.canvasW
       /\ pp.out.canvasW % 64 = 0
       /\ pp.out.canvasW \in 128..1024
       /\ cw >= 1 /\ (Scaled(cw) \/ (cw = 1 /\ Scaled(0)))
       /\ pp.out.canvasW = (IF RoundUp < 128 THEN 128
                            ELSE IF RoundUp > 1024 THEN 1024 ELSE RoundUp)

\* C24 witness: bitmaps scaled to the least width, to the greatest width
\* and to a width in between that is more than the content width plus 16
C24_Witness ==
  /\ Returned("scaleToFit")
  /\ pp.out.canvasW \in 129..1023
  /\ pp.out.canvasW > pp.out.contentW + 16

\* C25: the mask of a result has the height and the width of the tensor and
\* height * width entries; entry (y, x) is 0 when y is below the content
\* height and x below the content width, and 1 otherwise; the content is at
\* most as wide as the tensor and at most 128 high, which is less than the
\* height; so content height times content width entries are 0.
C25_MaskMarksPadding ==
  Returned("preprocessStrokes") =>
    LET r == pp.out
        Entry(i) == mask(r.width, r.contentH, r.contentW)[i]
        Entries == DOMAIN mask(r.width, r.contentH, r.contentW)
    IN /\ r.maskHeight = r.height
       /\ r.maskWidth = r.width
       /\ Entries = 0..(r.height * r.width - 1)
       /\ \A y \in 0..(r.height - 1) : \A x \in 0..(r.width - 1) :
            Entry(y * r.width + x) = (IF y < r.contentH /\ x < r.contentW THEN 0 ELSE 1)
       /\ r.contentW <= r.width
       /\ r.contentH <= 128
       /\ 128 < r.height
       /\ Cardinality({i \in Entries : Entry(i) = 0}) = r.contentH * r.contentW

\* C25 witness: a result whose content is narrower than the tensor, which is
\* neither of the least nor of the greatest width
C25_Witness ==
  /\ Returned("preprocessStrokes")
  /\ pp.out.contentW < pp.out.width
  /\ pp.out.width \in 129..1023
  /\ pp.out.contentH > 1

\* C26: for every point sequence and positive interval, the sequence that
\* resamplePoints returns begins with the first and ends with the last of the
\* given points, and a sequence of no or of one point is returned as it is.
C26_KeepsEnds ==
  Returned("resamplePoints") =>
    /\ Len(pp.given) < 2 => pp.out = pp.given
    /\ Len(pp.given) >= 1 =>
         /\ Len(pp.out) >= 1
         /\ pp.out[1] = pp.given[1]
         /\ pp.out[Len(pp.out)] = pp.given[Len(pp.given)]

\* C26 witness: the point pushed last by the loop is not the last given point
C26_Witness ==
  /\ Returned("resamplePoints")
  /\ Len(pp.given) >= 3
  /\ Len(pp.out) >= 3
  /\ pp.out[Len(pp.out) - 1] # pp.given[Len(pp.given)]

\* the point at arc length a >= 0 along the polyline, from its i-th point on
RECURSIVE AtArc(_, _, _)
AtArc(points, i, a) ==
  IF i >= Len(points) THEN points[Len(points)]
  ELSE LET dist == Dist(points[i], points[i + 1])
       IN IF a > dist \/ dist = 0 THEN AtArc(points, i + 1, a - dist)
          ELSE [x |-> points[i].x + ((points[i + 1].x - points[i].x) * a) \div dist,
                y |-> points[i].y + ((points[i + 1].y - points[i].y) * a) \div dist]

\* C27: for a polyline of two or more points and of length L, and an interval
\* d > 0, resamplePoints returns the first point, then the point at arc length
\* k * d for k = 1 .. floor(L / d) in this order, then the last point:
\* floor(L / d) + 2 points, however the length is split into segments.
C27_UniformSpacing ==
  (Returned("resamplePoints") /\ Len(pp.given) >= 2) =>
    LET L == PathLength(pp.given, 1)
        n == L \div pp.interval
    IN /\ Len(pp.out) = n + 2
       /\ pp.out[1] = pp.given[1]
       /\ \A k \in 1..n : pp.out[k + 1] = AtArc(pp.given, 1, k * pp.interval)
       /\ pp.out[n + 2] = pp.given[Len(pp.given)]

\* all points of a stroke list, as a set
PointSet(strokes) ==
  UNION {{strokes[k].points[i] : i \in 1..Len(strokes[k].points)} :
           k \in 1..Len(strokes)}

\* the sum of the lengths of the segments of one stroke
RECURSIVE StrokeLength(_)
StrokeLength(points) ==
  IF Len(points) <= 1 THEN 0
  ELSE StrokeLength(SubSeq(points, 1, Len(points) - 1))
       + Dist(points[Len(points) - 1], points[Len(points)])

\* the sum of f[k] over k in 1..n
RECURSIVE SumTo(_, _)
SumTo(f, n) == IF n = 0 THEN 0 ELSE SumTo(f, n - 1) + f[n]

\* C28: isStrokeMeaningful is true exactly when the stroke list is not empty,
\* the bounding box of all points is at least 8 wide or at least 8 high, the
\* strokes have at least 6 points in all, and the lengths of the strokes sum
\* to at least 15; a stroke list without a point is rejected.
C28_MeaningfulExactly ==
  Returned("isStrokeMeaningful") =>
    LET strokes == pp.given
        P == PointSet(strokes)
        Span(c) == {p[c] - q[c] : p \in P, q \in P}
        wide == \E s \in Span("x") : s >= 8
        high == \E s \in Span("y") : s >= 8
        count == SumTo([k \in 1..Len(strokes) |-> Len(strokes[k].points)],
                       Len(strokes))
        length == SumTo([k \in 1..Len(strokes) |-> StrokeLength(strokes[k].points)],
                        Len(strokes))
    IN /\ pp.out = (/\ Len(strokes) > 0
                    /\ wide \/ high
                    /\ count >= 6
                    /\ length >= 15)
       /\ P = {} => pp.out = FALSE

\* C28 witness: accepted strokes that are high but less than 8 wide, with
\* exactly 6 points in two strokes
C28_Witness ==
  /\ Returned("isStrokeMeaningful")
  /\ pp.out = TRUE
  /\ Len(pp.given) = 2
  /\ Len(pp.given[1].points) + Len(pp.given[2].points) = 6
  /\ \A p \in PointSet(pp.given) : p.x < 8

\* ------------------------------------------------ calls of applyModeMask
\* the greatest distance of a log-probability from 0, in bits
MaxBits == 2

LogProbValues == {NegInf} \cup {Fin(-1000 * b) : b \in 0..MaxBits}

\* a caller about to call applyModeMask on a vector of vocabSize entries
\* with a whitelist or with null
MaskInit ==
  /\ Quiet
  /\ tk = NoCall
  /\ sel = NoSelection
  /\ eng = NewEngine
  /\ oracle = NoOracle
  /\ ld = NoLoad
  /\ voc = NoVocab
  /\ mc = NoFetch
  /\ pp = NoInput
  /\ ui = NoApp
  /\ \E v \in [Tokens -> LogProbValues] :
       \/ am = [NoMasking EXCEPT !.pc = "call", !.logProbs = v, !.before = v]
       \/ \E a \in SUBSET Tokens \cup {NUMBER_MODE_ALLOWED} :
            am = [NoMasking EXCEPT !.pc = "call", !.logProbs = v, !.before = v,
                                   !.allowed = <<a>>]

ApplyModeMask ==
  /\ am.pc = "call"
  /\ am' = [am EXCEPT !.pc = "done",
                      !.logProbs = applyModeMask(am.logProbs, am.allowed)]
  /\ UNCHANGED <<coreVars, ld, voc, mc, pp, ui>>

MaskNext == ApplyModeMask

SpecMask == MaskInit /\ [][MaskNext]_vars

\* C29: after applyModeMask every index of the whitelist has the value it had
\* before, every other index below vocabSize has -Infinity, and with null for
\* the whitelist the whole vector is as it was.
C29_OnlyDisallowedChange ==
  am.pc = "done" =>
    /\ am.allowed = <<>> => am.logProbs = am.before
    /\ am.allowed # <<>> =>
         \A i \in 0..(VocabSize - 1) :
            /\ i \in am.allowed[1] => am.logProbs[i] = am.before[i]
            /\ i \notin am.allowed[1] => am.logProbs[i] = NegInf

\* C29 witness: a whitelist that allows some index and not another, both
\* with finite values before
C29_Witness ==
  /\ am.pc = "done"
  /\ am.allowed # <<>>
  /\ \E i, j \in Tokens :
       /\ i \in am.allowed[1] /\ am.before[i].fin /\ am.logProbs[i].fin
       /\ j \notin am.allowed[1] /\ am.before[j].fin /\ ~am.logProbs[j].fin

\* C30: when preprocessStrokes, resamplePoints or isStrokeMeaningful has
\* returned, the strokes it was given are as they were: the same strokes in
\* the same order, each with the same points in the same order and with the
\* same lineWidth.
C30_InputOnlyRead ==
  /\ (Returned("preprocessStrokes") \/ Returned("isStrokeMeaningful")) =>
       /\ Len(pp.strokes) = Len(pp.given)
       /\ \A k \in 1..Len(pp.given) :
            /\ pp.strokes[k].lineWidth = pp.given[k].lineWidth
            /\ Len(pp.strokes[k].points) = Len(pp.given[k].points)
            /\ \A i \in 1..Len(pp.given[k].points) :
                 /\ pp.strokes[k].points[i].x = pp.given[k].points[i].x
                 /\ pp.strokes[k].points[i].y = pp.given[k].points[i].y
  /\ Returned("resamplePoints") =>
       /\ Len(pp.points) = Len(pp.given)
       /\ \A i \in 1..Len(pp.given) :
            /\ pp.points[i].x = pp.given[i].x
            /\ pp.points[i].y = pp.given[i].y

\* C30 witness: preprocessStrokes has returned for a stroke whose resampling
\* has more points than the stroke
C30_Witness ==
  /\ Returned("preprocessStrokes")
  /\ \E k \in 1..Len(pp.given) :
       /\ Len(pp.given[k].points) >= 2
       /\ Len(resamplePoints(pp.given[k].points, DEFAULT_INTERVAL).resampled)
            > Len(pp.given[k].points)

\* ------------------------------------------ MathCanvas.vue and the demo app
IDLE_MS == 1200

\* props.lineWidth
LINE_WIDTH == 3

\* bounds: points of a stroke, strokes on the canvas, recognize calls not
\* settled, the step of the clock, and the number the count of events wraps at
MaxStrokePoints == 3
MaxCanvasStrokes == 2
MaxCalls == 1
TickMs == 600
EmitWrap == 3

\* getPos(e): the pointer is at one of two places
PointerPositions == {[x |-> 0, y |-> 0], [x |-> 8, y |-> 0]}

\* the variables of the calls of single functions
callVars == <<ld, voc, mc, pp, am>>

\* onStrokesChange up to its return: the callback of the timer is TimerFires
onStrokesChange(u, strokes) ==
  IF ~u.engine \/ Len(strokes) = 0
    THEN [u EXCEPT !.result = "null", !.quiet = TRUE]
  ELSE IF ~isStrokeMeaningful(strokes)
    THEN [u EXCEPT !.result = "null", !.quiet = TRUE]
  ELSE [u EXCEPT !.idleTimer = [on |-> TRUE, strokes |-> strokes, left |-> IDLE_MS],
                 !.quiet = FALSE]

\* emit('strokesChange', payload): the listener of the app runs at once
emit(u, payload) ==
  onStrokesChange([u EXCEPT !.emits = (@ + 1) % EmitWrap, !.payload = payload,
                            !.sinceChange = 0], payload)

startDraw(u, pos) == [u EXCEPT !.isDrawing = TRUE, !.currentPoints = <<pos>>]

draw(u, pos) ==
  IF ~u.isDrawing THEN u
  ELSE [u EXCEPT !.currentPoints = Append(@, pos)]

\* mutant: the stroke list is emitted as it was before the stroke
endDrawEmitsOld(u) ==
  IF ~u.isDrawing THEN u
  ELSE IF Len(u.currentPoints) > 0
    THEN emit([u EXCEPT !.isDrawing = FALSE,
                        !.strokes = Append(@, [points |-> u.currentPoints,
                                               lineWidth |-> LINE_WIDTH]),
                        !.currentPoints = <<>>],
              u.strokes)
  ELSE [u EXCEPT !.isDrawing = FALSE]

endDraw(u) ==
  IF ~u.isDrawing THEN u
  ELSE IF Len(u.currentPoints) > 0
    THEN emit([u EXCEPT !.isDrawing = FALSE,
                        !.strokes = Append(@, [points |-> u.currentPoints,
                                               lineWidth |-> LINE_WIDTH]),
                        !.currentPoints = <<>>],
              Append(u.strokes, [points |-> u.currentPoints,
                                 lineWidth |-> LINE_WIDTH]))
  ELSE [u EXCEPT !.isDrawing = FALSE]

clear(u) == emit([u EXCEPT !.strokes = <<>>, !.currentPoints = <<>>], <<>>)

\* mutant: the first stroke is removed
undoFirst(u) ==
  IF Len(u.strokes) = 0 THEN u
  ELSE emit([u EXCEPT !.strokes = SubSeq(@, 2, Len(@))],
            SubSeq(u.strokes, 2, Len(u.strokes)))

undo(u) ==
  IF Len(u.strokes) = 0 THEN u
  ELSE emit([u EXCEPT !.strokes = SubSeq(@, 1, Len(@) - 1)],
            SubSeq(u.strokes, 1, Len(u.strokes) - 1))

handleClear(u) == [clear(u) EXCEPT !.result = "null", !.quiet = TRUE]

\* mousedown or touchstart
StartDraw(pos) ==
  /\ ui' = [startDraw(ui, pos) EXCEPT !.last = "startDraw"]
  /\ UNCHANGED <<coreVars, callVars>>

\* mousemove or touchmove: the pointer has moved
Draw(pos) ==
  /\ ui.isDrawing => Len(ui.currentPoints) < MaxStrokePoints
  /\ Len(ui.currentPoints) > 0 => pos # ui.currentPoints[Len(ui.currentPoints)]
  /\ ui' = [draw(ui, pos) EXCEPT !.last = "draw"]
  /\ UNCHANGED <<coreVars, callVars>>

\* mouseup, mouseleave or touchend
EndDraw ==
  /\ (ui.isDrawing /\ Len(ui.currentPoints) > 0) => Len(ui.strokes) < MaxCanvasStrokes
  /\ ui' = [endDraw(ui) EXCEPT !.last = "endDraw"]
  /\ UNCHANGED <<coreVars, callVars>>

Clear ==
  /\ ui' = [clear(ui) EXCEPT !.last = "clear"]
  /\ UNCHANGED <<coreVars, callVars>>

Undo ==
  /\ ui' = [undo(ui) EXCEPT !.last = "undo"]
  /\ UNCHANGED <<coreVars, callVars>>

HandleClear ==
  /\ ui' = [handleClear(ui) EXCEPT !.last = "clear"]
  /\ UNCHANGED <<coreVars, callVars>>

\* TickMs pass without an event; a timer that is due fires first
Tick ==
  /\ ~(ui.idleTimer.on /\ ui.idleTimer.left = 0)
  /\ ui' = [ui EXCEPT !.sinceChange = Min(@ + TickMs, IDLE_MS),
                      !.idleTimer.left = Max(0, @ - TickMs)]
  /\ UNCHANGED <<coreVars, callVars>>

\* the callback of setTimeout up to its await: preprocessStrokes(strokes) and
\* engine.recognize with the strokes the timer was set for
TimerFires ==
  /\ ui.idleTimer.on
  /\ ui.idleTimer.left = 0
  /\ ui.calls < MaxCalls
  /\ ui' = [ui EXCEPT !.idleTimer.on = FALSE,
                      !.calls = @ + 1,
                      !.startedAfter = ui.sinceChange]
  /\ UNCHANGED <<coreVars, callVars>>

\* the rest of the callback: recognize resolves with latex, resolves with
\* nothing in it, or rejects
RecognizeSettles(r) ==
  /\ ui.calls > 0
  /\ ui' = [ui EXCEPT
              !.calls = @ - 1,
              !.result = IF r = "latex" THEN "latex"
                         ELSE IF r = "empty" THEN "null"
                         ELSE @]
  /\ UNCHANGED <<coreVars, callVars>>

\* the canvas alone: its parent has no engine
CanvasInit ==
  /\ Quiet
  /\ tk = NoCall
  /\ sel = NoSelection
  /\ eng = NewEngine
  /\ oracle = NoOracle
  /\ ld = NoLoad
  /\ voc = NoVocab
  /\ mc = NoFetch
  /\ pp = NoInput
  /\ am = NoMasking
  /\ ui = [NoApp EXCEPT !.sinceChange = IDLE_MS, !.startedAfter = IDLE_MS]

CanvasNext ==
  \/ \E pos \in PointerPositions : StartDraw(pos)
  \/ \E pos \in PointerPositions : Draw(pos)
  \/ EndDraw
  \/ Clear
  \/ Undo

SpecCanvas == CanvasInit /\ [][CanvasNext]_vars

\* the app after onMounted: vocabulary and engine are loaded
AppInit ==
  /\ Quiet
  /\ tk = NoCall
  /\ sel = NoSelection
  /\ eng = NewEngine
  /\ oracle = NoOracle
  /\ ld = NoLoad
  /\ voc = NoVocab
  /\ mc = NoFetch
  /\ pp = NoInput
  /\ am = NoMasking
  /\ ui = [NoApp EXCEPT !.engine = TRUE, !.sinceChange = IDLE_MS,
                        !.startedAfter = IDLE_MS]

AppNext ==
  \/ \E pos \in PointerPositions : StartDraw(pos)
  \/ \E pos \in PointerPositions : Draw(pos)
  \/ EndDraw
  \/ HandleClear
  \/ Undo
  \/ Tick
  \/ TimerFires
  \/ \E r \in {"latex", "empty", "error"} : RecognizeSettles(r)

SpecApp == AppInit /\ [][AppNext]_vars

\* C31: each time a stroke ends (endDraw while drawing, with at least one
\* point) strokes-change is emitted once, with the stroke list in drawing
\* order and the new stroke at its end; startDraw and draw emit nothing; draw
\* while not drawing adds no point; endDraw while not drawing changes nothing
\* and emits nothing.
C31_StrokeEndEmitsOnce ==
  [][/\ (ui'.last = "endDraw" /\ ui.isDrawing /\ Len(ui.currentPoints) > 0) =>
          /\ ui'.emits = (ui.emits + 1) % EmitWrap
          /\ ui'.payload = Append(ui.strokes, [points |-> ui.currentPoints,
                                               lineWidth |-> LINE_WIDTH])
          /\ ui'.strokes = ui'.payload
     /\ (ui'.last = "endDraw" /\ ~ui.isDrawing) =>
          ui' = [ui EXCEPT !.last = "endDraw"]
     /\ (ui'.last = "endDraw" /\ ui.isDrawing /\ Len(ui.currentPoints) = 0) =>
          ui' = [ui EXCEPT !.last = "endDraw", !.isDrawing = FALSE]
     /\ (ui'.last = "draw" /\ ~ui.isDrawing) =>
          ui' = [ui EXCEPT !.last = "draw"]
     /\ ui'.last \in {"startDraw", "draw"} =>
          /\ ui'.emits = ui.emits
          /\ ui'.strokes = ui.strokes
          /\ ui'.payload = ui.payload]_vars

\* C31 witness: the second stroke has ended and the two strokes were emitted
C31_Witness ==
  /\ ui.last = "endDraw"
  /\ ui.emits = 2
  /\ Len(ui.strokes) = 2
  /\ ui.payload = ui.strokes
  /\ ui.strokes[1] # ui.strokes[2]

\* C32: undo() on a list with strokes removes the last one and emits
\* strokes-change with the rest, and on the empty list changes and emits
\* nothing; undo() after a stroke has ended gives the list as it was before that
\* stroke; clear() empties the list and emits strokes-change with the empty list.
C32_UndoAndClear ==
  /\ [][/\ (ui'.last = "undo" /\ Len(ui.strokes) > 0) =>
             /\ ui'.strokes = SubSeq(ui.strokes, 1, Len(ui.strokes) - 1)
             /\ ui'.emits = (ui.emits + 1) % EmitWrap
             /\ ui'.payload = ui'.strokes
        /\ (ui'.last = "undo" /\ Len(ui.strokes) = 0) =>
             ui' = [ui EXCEPT !.last = "undo"]
        /\ ui'.last = "clear" =>
             /\ ui'.strokes = <<>>
             /\ ui'.emits = (ui.emits + 1) % EmitWrap
             /\ ui'.payload = <<>>]_vars
  /\ [](ui.isDrawing /\ Len(ui.currentPoints) > 0 =>
          undo(endDraw(ui)).strokes = ui.strokes)

\* C32 witness: undo() has removed the second of two strokes
C32_Witness ==
  /\ ui.last = "undo"
  /\ Len(ui.strokes) = 1
  /\ ui.emits = 0
  /\ ui.payload = ui.strokes

\* C40: in the demo app, once the strokes are empty or not meaningful the
\* displayed result is null and stays null until a meaningful list of strokes
\* is emitted again, no recognition scheduled for the earlier strokes is still
\* to run or to settle, and every recognition started after IDLE_MS without a
\* strokes-change.
C40_NullWhileNoStrokes ==
  /\ ui.quiet => /\ ui.result = "null"
                 /\ ~ui.idleTimer.on
                 /\ ui.calls = 0
  /\ ui.startedAfter >= IDLE_MS

\* ------------------------------------------- the decoder calls of a beam round
\* the indices from j on of the beams of r that are not finished
OpenFrom(r, j) == {k \in j .. Len(r.beams) : ~r.beams[k].finished}

MinOf(S) == CHOOSE x \in S : \A y \in S : x <= y

\* C33: in each beam round the decoder is called once for every beam of the
\* beam set that is not finished, in the order of the set, and never for a
\* finished one: one call in the first round, at most beamWidth calls in any
\* round; no call is issued once every surviving beam is finished or the
\* search has ended.
C33_OneCallPerOpenBeam ==
  /\ [](\A id \in AllIds :
          w[id].pc = "beam" =>
            /\ w[id].bi \in OpenFrom(w[id], 1)
            /\ Len(w[id].beams) <= w[id].beamWidth
            /\ w[id].rounds = 0 => Len(w[id].beams) = 1)
  /\ [][\A id \in AllIds :
          LET r == w[id]
              r2 == w'[id]
              calls == hist[id].decodeCalls
              calls2 == hist'[id].decodeCalls
              rest == OpenFrom(r, r.bi + 1)
          IN /\ (r.pc = "encode" /\ r2.pc = "beam") =>
                  /\ r2.bi = 1
                  /\ r2.rounds = 0
                  /\ calls2 = calls + 1
             /\ (r.pc = "beam" /\ r2 # r /\ ~hist'[id].failed) =>
                  IF rest # {}
                    THEN /\ r2.pc = "beam"
                         /\ r2.beams = r.beams
                         /\ r2.rounds = r.rounds
                         /\ r2.bi = MinOf(rest)
                         /\ calls2 = calls + 1
                  ELSE /\ r2.rounds = r.rounds + 1
                       /\ IF OpenFrom(r2, 1) = {} \/ r.step + 1 >= r.maxSteps
                            THEN r2.pc = "done" /\ calls2 = calls
                          ELSE /\ r2.pc = "beam"
                               /\ r2.bi = MinOf(OpenFrom(r2, 1))
                               /\ calls2 = calls + 1
             /\ r.pc = "done" => calls2 = calls]_vars

\* C33 witness: in a later round the decoder is called for a beam that comes
\* after a finished one, which is passed over
C33_Witness ==
  \E id \in AllIds :
    /\ w[id].pc = "beam"
    /\ w[id].rounds >= 1
    /\ w[id].bi >= 2
    /\ \E k \in 1 .. (w[id].bi - 1) : w[id].beams[k].finished

\* ------------------------------------------- a decoder with two tokens ahead
\* logits with token 0 and eos both ahead of the others by MaxLogit
TwoAhead == [i \in Tokens |-> IF i \in {0, EOS} THEN MaxLogit ELSE 0]

\* what decodeStep may return here
TwinRows == {Row(0, MaxLogit), TwoAhead, Row(EOS, 1)}

\* <<beamWidth, maxSteps>>: two beams, and steps enough for a run of
\* REPEAT_LIMIT tokens and one more; three beams for two rounds
TwinLoads == {<<2, MaxSteps>>, <<MaxBeamWidth, 2>>}

\* runDecoder resolved in the beam loop
BeamStepTwin(id) ==
  /\ w[id].pc = "beam"
  /\ \E logits \in TwinRows : Advance(id, BeamBody(w[id], logits), hist[id])
  /\ UNCHANGED <<nextId, pending, settled, delivered, toWorker, encSeq, otherVars>>

TwinNext ==
  \/ EngineRecognize(SeqIds, TwinLoads)
  \/ WorkerOnMessage
  \/ \E id \in AllIds : EncodeReturn(id)
  \/ \E id \in AllIds : BeamStepTwin(id)
  \/ EngineOnMessage

SpecTwin == Init /\ [][TwinNext]_vars

\* C37: the candidates a beam search returns are pairwise distinct token
\* sequences: no two of them have the same ids.
C37_CandidatesDistinct ==
  \A id \in AllIds :
    (w[id].pc = "done" /\ ~hist[id].failed /\ w[id].beamWidth > 1) =>
      \A m, n \in 1 .. Len(w[id].candidates) :
        w[id].candidates[m].ids = w[id].candidates[n].ids => m = n

\* C36: a failed initialization is sticky: while initPromise is the rejected
\* promise of a failed _init and dispose() is not called, every init() or
\* recognize() that is called waits on that promise and creates no worker,
\* and every call that waited on it is rejected.
C36_FailedInitSticky ==
  [][LET p == eng.initPromise
     IN (p # 0 /\ eng.promise[p] = "rejected" /\ eng'.initPromise # 0) =>
          /\ eng'.initPromise = p
          /\ Len(eng'.workers) = Len(eng.workers)
          /\ \A c \in Callers :
               /\ (eng.call[c].pc \in {"idle", "returned", "rejected"}
                     /\ eng'.call[c] # eng.call[c]) =>
                    (eng'.call[c].pc = "awaitInit" /\ eng'.call[c].on = p)
               /\ (eng.call[c].pc = "awaitInit" /\ eng.call[c].on = p
                     /\ eng'.call[c] # eng.call[c]) =>
                    eng'.call[c].pc = "rejected"]_vars

\* ----------------------------------------- dispose() with requests in flight
\* mutant: dispose() starts the ids again at 0
nextIdReset(n) == 0

\* dispose() does not assign nextId
nextIdKept(n) == n

\* mutant: dispose() clears the map without rejecting
rejectPendingSilent(sett, pend) == sett

\* for (const [, p] of this.pending) p.reject(new Error("Engine disposed"))
rejectPending(sett, pend) ==
  [i \in AllIds |-> IF i \in pend THEN "disposed" ELSE sett[i]]

\* dispose() of the worker engine, seen from the requests. A worker that is
\* terminated sends nothing more (gone); one that dispose() did not reach,
\* because this.worker was null or another worker, goes on and its messages
\* still arrive.
EngineDispose ==
  /\ settled' = rejectPending(settled, pending)
  /\ pending' = {}
  /\ nextId' = nextIdKept(nextId)
  /\ \E gone \in BOOLEAN :
       /\ toWorker' = IF gone THEN <<>> ELSE toWorker
       /\ toEngine' = IF gone THEN <<>> ELSE toEngine
  /\ UNCHANGED <<delivered, w, encSeq, hist, otherVars>>

DispNext ==
  \/ EngineRecognize(ConcIds, ConcLoads)
  \/ WorkerOnMessage
  \/ \E id \in AllIds : EncodeReturn(id)
  \/ \E id \in AllIds : EncodeFail(id)
  \/ \E id \in AllIds : GreedyStep(id)
  \/ \E id \in AllIds : BeamStep(id)
  \/ \E id \in AllIds : DecodeFail(id)
  \/ EngineOnMessage
  \/ EngineDispose

SpecDisp == Init /\ [][DispNext]_vars

\* the ids of the messages in a queue
IdsIn(queue) == {queue[n].id : n \in 1 .. Len(queue)}

\* dispose() rejects a request in this step
Disposing == \E i \in AllIds : settled[i] = "none" /\ settled'[i] = "disposed"

\* C34: every recognize() gets an id that was never used before, also after
\* a dispose(); a recognize-done or recognize-error settles the pending
\* request with its id, and no other, and removes it from the map; a message
\* whose id is not in the map changes nothing; no request is settled twice,
\* whatever the order of the responses.
C34_Correlation ==
  /\ [](\A i \in AllIds :
          i >= nextId =>
            /\ i \notin pending
            /\ settled[i] = "none"
            /\ w[i].pc = "idle"
            /\ i \notin IdsIn(toWorker) \cup IdsIn(toEngine))
  /\ [][/\ nextId' >= nextId
        /\ nextId' # nextId =>
             /\ nextId' = nextId + 1
             /\ pending' = pending \cup {nextId}
             /\ toWorker'[Len(toWorker')].id = nextId
        /\ \A i \in AllIds :
             /\ settled[i] # "none" => settled'[i] = settled[i]
             /\ (settled[i] = "none" /\ settled'[i] \in {"resolved", "rejected"}) =>
                  /\ toEngine # <<>>
                  /\ Head(toEngine).id = i
                  /\ (Head(toEngine).type = "recognize-done")
                       = (settled'[i] = "resolved")
                  /\ settled'[i] = "resolved" =>
                       delivered'[i] = Head(toEngine).candidates
                  /\ i \in pending
                  /\ pending' = pending \ {i}
                  /\ \A j \in AllIds \ {i} : settled'[j] = settled[j]
             /\ (i \in pending /\ i \notin pending') => settled'[i] # "none"
        /\ (toEngine # <<>> /\ toEngine' = Tail(toEngine) /\ ~Disposing) =>
             IF Head(toEngine).id \in pending
               THEN settled'[Head(toEngine).id] \in {"resolved", "rejected"}
             ELSE UNCHANGED <<pending, settled, delivered>>]_vars

\* C34 witness: the second request was answered before the first, which is
\* still pending with its handler waiting for the decoder
C34_Witness ==
  /\ settled[1] = "resolved"
  /\ 0 \in pending
  /\ w[0].pc \in {"greedy", "beam"}

\* C35: dispose() rejects every request of the pending map with 'Engine
\* disposed' and leaves the map empty; a request that was handed out is
\* pending or settled; a request rejected by dispose() is never resolved by
\* a message that arrives later.
C35_DisposeSettlesAll ==
  /\ [](\A i \in AllIds :
          /\ (i < nextId /\ i \notin pending) => settled[i] # "none"
          /\ settled[i] = "disposed" => i \notin pending /\ delivered[i] = <<>>)
  /\ [][/\ Disposing =>
             /\ pending' = {}
             /\ \A i \in pending : settled'[i] = "disposed"
        /\ \A i \in AllIds :
             settled[i] = "disposed" =>
               /\ settled'[i] = "disposed"
               /\ delivered'[i] = delivered[i]
               /\ i \notin pending']_vars

\* C35 witness: dispose() has rejected the first request, whose
\* recognize-done is the next message the engine gets, and the second
\* request is pending
C35_Witness ==
  /\ settled[0] = "disposed"
  /\ toEngine # <<>>
  /\ Head(toEngine).id = 0
  /\ Head(toEngine).type = "recognize-done"
  /\ 1 \in pending

\* ------------------------------------------------- repairLatex as a whole
\* longer arrays over fewer tokens
MaxRepairTokens == 7

RepairSymbols == {"{", "}", "\\frac", "\\sqrt", "x"}

RepairInit ==
  /\ Quiet
  /\ \E n \in 0 .. MaxRepairTokens : \E t \in [1 .. n -> RepairSymbols] :
       tk = [NoCall EXCEPT !.pc = "tokens", !.tokens = t]
  /\ sel = NoSelection
  /\ eng = NewEngine
  /\ oracle = NoOracle
  /\ More

SpecRepair == RepairInit /\ [][RepairLatex]_vars

\* C38: repairLatex is idempotent: repairing its output again gives that
\* output.
C38_Idempotent ==
  tk.pc = "repaired" => repairLatex(tk.out) = tk.out

\* a from index i on is found in b from index j on, in order
RECURSIVE Embeds(_, _, _, _)
Embeds(a, i, b, j) ==
  IF i > Len(a) THEN TRUE
  ELSE IF j > Len(b) THEN FALSE
  ELSE IF a[i] = b[j] THEN Embeds(a, i + 1, b, j + 1)
  ELSE Embeds(a, i, b, j + 1)

\* C39: the output of repairLatex is balanced with no negative prefix, and
\* consists of tokens of the input in their order followed by '}' tokens
\* only: nothing else is inserted and nothing is reordered.
C39_BalancedSubsequence ==
  tk.pc = "repaired" =>
    /\ Balanced(tk.out)
    /\ \E n \in 0 .. Len(tk.out) :
         /\ Embeds(SubSeq(tk.out, 1, n), 1, tk.tokens, 1)
         /\ \A k \in (n + 1) .. Len(tk.out) : tk.out[k] = "}"

\* C39 witness: an extra group that holds a nested group was discarded after
\* \sqrt and its argument, and the '}' that closes the array was appended
C39_Witness ==
  /\ tk.pc = "repaired"
  /\ tk.tokens = <<"{", "\\sqrt", "x", "{", "{", "}">>
  /\ tk.out = <<"{", "\\sqrt", "x", "}">>
====
